---- MODULE Spec2Model ----
(***************************************************************************)
(* CuraScan: the report-value parser (parseExtractedValues), the           *)
(* hemoglobin override of the processing route (applyHemoglobinRule), the  *)
(* file download of the reports route (GET /api/reports/:id/file), the     *)
(* upload routes, the processing route (POST /api/process/:reportId) with  *)
(* runExtractor and runRecommendations, and the client's UploadSheet.      *)
(*                                                                         *)
(* A JavaScript string is a sequence of one-character strings.  The        *)
(* characters that have no printable form are written "LF" (\n), "CR"      *)
(* (\r), "TAB" (\t), "NBSP" (U+00A0), "ENDASH" (U+2013), "MICRO" (U+00B5). *)
(* A JavaScript number is the exact decimal fraction n/d in lowest decimal *)
(* form (d a power of ten, n not a multiple of ten unless d = 1).          *)
(***************************************************************************)
EXTENDS Integers, Sequences, FiniteSets, TLC

VARIABLES text, pcP, lines, li, found, seen, out, prevOut, raised,
          sex, table, items, predictions, finalPreds, pcC,
          uploadDir, report, idValid, uploadsRoot, resolved, response, pcR,
          stored, prevStored, procReport, tmpFiles, tmpExtracted, tmpParsed,
          extractedText, recommendations, steps, procResponse, clock, pcProc,
          calls, outFiles,
          recChild, recStdout, recTmpFile, recPromise, recCode,
          pcImg, imgFile, pipelineRaw, pipelineJson, recJson, savedReport, reportsDb,
          imgResponse,
          pcSheet, loading, onCloseCalls, presses, sent, uploadResp

vars == <<text, pcP, lines, li, found, seen, out, prevOut, raised,
          sex, table, items, predictions, finalPreds, pcC,
          uploadDir, report, idValid, uploadsRoot, resolved, response, pcR,
          stored, prevStored, procReport, tmpFiles, tmpExtracted, tmpParsed,
          extractedText, recommendations, steps, procResponse, clock, pcProc,
          calls, outFiles,
          recChild, recStdout, recTmpFile, recPromise, recCode,
          pcImg, imgFile, pipelineRaw, pipelineJson, recJson, savedReport, reportsDb,
          imgResponse,
          pcSheet, loading, onCloseCalls, presses, sent, uploadResp>>

parserVars == <<text, pcP, lines, li, found, seen, out, prevOut, raised>>
classifierVars == <<sex, table, items, predictions, finalPreds, pcC>>
reportVars == <<uploadDir, report, idValid, uploadsRoot, resolved, response, pcR>>
processVars == <<stored, prevStored, procReport, tmpFiles, tmpExtracted, tmpParsed,
                 extractedText, recommendations, steps, procResponse, clock, pcProc>>
extractorVars == <<calls, outFiles>>
recVars == <<recChild, recStdout, recTmpFile, recPromise, recCode>>
imageVars == <<pcImg, imgFile, pipelineRaw, pipelineJson, recJson, savedReport,
               reportsDb, imgResponse>>
sheetVars == <<pcSheet, loading, onCloseCalls, presses, sent, uploadResp>>
\* the variables of the other routes and of the client
routeVars == <<processVars, extractorVars, recVars, imageVars>>
processRest == <<parserVars, reportVars, extractorVars, recVars, imageVars, sheetVars>>
extractorRest ==
  <<parserVars, classifierVars, reportVars, processVars, recVars, imageVars, sheetVars>>
recRest ==
  <<parserVars, classifierVars, reportVars, processVars, extractorVars, imageVars,
    sheetVars>>
imageRest ==
  <<parserVars, classifierVars, reportVars, processVars, extractorVars, recVars,
    sheetVars>>
sheetRest == <<parserVars, classifierVars, reportVars, routeVars>>

(***************************************************************************)
(* JavaScript values                                                       *)
(***************************************************************************)
Num(n, d) == [kind |-> "number", n |-> n, d |-> d]
Whole(n) == Num(n, 1)
null == [kind |-> "null", n |-> 0, d |-> 1]

Str(cs) == [kind |-> "string", chars |-> cs]
nullText == [kind |-> "null", chars |-> <<>>]
undefinedText == [kind |-> "undefined", chars |-> <<>>]

\* the guard written as text === "": null and undefined get past it
Falsy_EmptyStringOnly(t) == t.kind = "string" /\ t.chars = <<>>

\* !text : null, undefined and "" are falsy
Falsy(t) == t.kind = "null" \/ t.kind = "undefined" \/ t.chars = <<>>

\* a < b on numbers held as decimal fractions
NumLess(a, b) == a.n * b.d < b.n * a.d

(***************************************************************************)
(* Characters                                                              *)
(***************************************************************************)
Digits == {"0", "1", "2", "3", "4", "5", "6", "7", "8", "9"}

DigitVal(c) ==
  CASE c = "0" -> 0 [] c = "1" -> 1 [] c = "2" -> 2 [] c = "3" -> 3
    [] c = "4" -> 4 [] c = "5" -> 5 [] c = "6" -> 6 [] c = "7" -> 7
    [] c = "8" -> 8 [] c = "9" -> 9

\* what \s and String.prototype.trim treat as white space (of the characters used here)
WhiteSpace == {" ", "TAB", "CR", "LF", "NBSP"}

\* the separator class without the en-dash
RangeDashes_HyphenOnly == {"-"}

\* the separator class [-\u2013] of the range pattern
RangeDashes == {"-", "ENDASH"}

\* the "i" flag: letters are compared case-folded
LowerOf ==
  [A |-> "a", B |-> "b", C |-> "c", D |-> "d", E |-> "e", F |-> "f", G |-> "g",
   H |-> "h", I |-> "i", J |-> "j", K |-> "k", L |-> "l", M |-> "m", N |-> "n",
   O |-> "o", P |-> "p", Q |-> "q", R |-> "r", S |-> "s", T |-> "t", U |-> "u",
   V |-> "v", W |-> "w", X |-> "x", Y |-> "y", Z |-> "z"]

UpperLetters == DOMAIN LowerOf

LowerChar(c) == IF c \in UpperLetters THEN LowerOf[c] ELSE c

\* s[i..j], empty when j < i
Sub(s, i, j) == SubSeq(s, i, j)

\* does pattern p occur in s starting at position i, letters compared without case
OccursAt(s, p, i) ==
  /\ i + Len(p) - 1 <= Len(s)
  /\ \A k \in 1..Len(p) : LowerChar(s[i + k - 1]) = LowerChar(p[k])

\* new RegExp(nm, "i").test(l) for a pattern nm that matches one literal string
RegExpTestI(nm, l) == \E i \in 1..Len(l) : OccursAt(l, nm, i)

(***************************************************************************)
(* parseExtractedValues, lines 4-25: normalisation and line splitting      *)
(***************************************************************************)
\* text.replace(/\r\n/g, "\n")
RECURSIVE ReplaceCRLF(_)
ReplaceCRLF(s) ==
  IF s = <<>> THEN <<>>
  ELSE IF Len(s) >= 2 /\ s[1] = "CR" /\ s[2] = "LF"
       THEN <<"LF">> \o ReplaceCRLF(Sub(s, 3, Len(s)))
       ELSE <<s[1]>> \o ReplaceCRLF(Tail(s))

\* .replace(/\u00A0/g, " ")
ReplaceNBSP(s) == [i \in 1..Len(s) |-> IF s[i] = "NBSP" THEN " " ELSE s[i]]

\* the non-breaking spaces left in the text
Normalize_KeepNBSP(s) == ReplaceCRLF(s)

Normalize(s) == ReplaceNBSP(ReplaceCRLF(s))

\* s.split(/\n+/): the pieces between maximal runs of LF (empty pieces at the ends included)
RECURSIVE SplitLF(_, _)
SplitLF(s, cur) ==
  IF s = <<>> THEN <<cur>>
  ELSE IF s[1] = "LF"
       THEN IF Len(s) >= 2 /\ s[2] = "LF"
            THEN SplitLF(Tail(s), cur)
            ELSE <<cur>> \o SplitLF(Tail(s), <<>>)
       ELSE SplitLF(Tail(s), Append(cur, s[1]))

\* l.trim()
RECURSIVE TrimLeft(_)
TrimLeft(s) ==
  IF s # <<>> /\ s[1] \in WhiteSpace THEN TrimLeft(Tail(s)) ELSE s

RECURSIVE TrimRight(_)
TrimRight(s) ==
  IF s # <<>> /\ s[Len(s)] \in WhiteSpace THEN TrimRight(Sub(s, 1, Len(s) - 1)) ELSE s

Trim(s) == TrimRight(TrimLeft(s))

\* s.split(/\n+/).map(l => l.trim()).filter(Boolean)
SplitLines(s) ==
  LET pieces == SplitLF(s, <<>>)
      trimmed == [i \in 1..Len(pieces) |-> Trim(pieces[i])]
  IN  SelectSeq(trimmed, LAMBDA l : l # <<>>)

(***************************************************************************)
(* The registry, lines 5-23.  A name is the literal string its pattern     *)
(* matches ("\\(" matches "(", "\\^" matches "^").                         *)
(***************************************************************************)
tests ==
  << [key |-> "Hemoglobin", names |-> << <<"H", "e", "m", "o", "g", "l", "o", "b", "i", "n">>, <<"H", "e", "m", "o", "g", "l", "o", "b", "i", "n", " ", "(", "g", "/", "d", "L", ")">> >>],
     [key |-> "RBC", names |-> << <<"R", "B", "C">>, <<"R", "B", "C", " ", "(", "1", "0", "^", "6", "/", "MICRO", "L", ")">> >>],
     [key |-> "WBC", names |-> << <<"W", "B", "C">> >>],
     [key |-> "Platelets", names |-> << <<"P", "l", "a", "t", "e", "l", "e", "t", "s">> >>],
     [key |-> "Hematocrit", names |-> << <<"H", "e", "m", "a", "t", "o", "c", "r", "i", "t">> >>],
     [key |-> "MCV", names |-> << <<"M", "C", "V">> >>],
     [key |-> "MCH", names |-> << <<"M", "C", "H">> >>],
     [key |-> "MCHC", names |-> << <<"M", "C", "H", "C">> >>],
     [key |-> "Neutrophils", names |-> << <<"N", "e", "u", "t", "r", "o", "p", "h", "i", "l", "s">> >>],
     [key |-> "Lymphocytes", names |-> << <<"L", "y", "m", "p", "h", "o", "c", "y", "t", "e", "s">> >>],
     [key |-> "Fasting Glucose", names |-> << <<"F", "a", "s", "t", "i", "n", "g", " ", "G", "l", "u", "c", "o", "s", "e">> >>],
     [key |-> "Urea", names |-> << <<"U", "r", "e", "a">> >>],
     [key |-> "Creatinine", names |-> << <<"C", "r", "e", "a", "t", "i", "n", "i", "n", "e">> >>],
     [key |-> "Sodium", names |-> << <<"S", "o", "d", "i", "u", "m">> >>],
     [key |-> "Potassium", names |-> << <<"P", "o", "t", "a", "s", "s", "i", "u", "m">> >>],
     [key |-> "ALT", names |-> << <<"A", "L", "T">> >>],
     [key |-> "AST", names |-> << <<"A", "S", "T">> >>] >>

(***************************************************************************)
(* Numbers in a line, lines 33-41                                          *)
(***************************************************************************)
\* last position of the maximal run of digits that starts at i (s[i] is a digit)
RECURSIVE DigitRunEnd(_, _)
DigitRunEnd(s, i) ==
  IF i + 1 <= Len(s) /\ s[i + 1] \in Digits THEN DigitRunEnd(s, i + 1) ELSE i

\* last position of the greedy match of [0-9]+(?:\.[0-9]+)? that starts at i
NumEnd(s, i) ==
  LET e == DigitRunEnd(s, i)
  IN  IF e + 2 <= Len(s) /\ s[e + 1] = "." /\ s[e + 2] \in Digits
      THEN DigitRunEnd(s, e + 2)
      ELSE e

RECURSIVE DigitsToInt(_)
DigitsToInt(ds) ==
  IF ds = <<>> THEN 0
  ELSE DigitsToInt(Sub(ds, 1, Len(ds) - 1)) * 10 + DigitVal(ds[Len(ds)])

RECURSIVE Pow10(_)
Pow10(k) == IF k = 0 THEN 1 ELSE 10 * Pow10(k - 1)

\* a fraction n/d (d a power of ten) without trailing zeros of the decimal part
RECURSIVE Reduce(_, _)
Reduce(n, d) ==
  IF d > 1 /\ n % 10 = 0 THEN Reduce(n \div 10, d \div 10) ELSE Num(n, d)

\* parseFloat of a string of the shape digits or digits.digits
ParseFloat(ds) ==
  LET e == DigitRunEnd(ds, 1)
      ip == DigitsToInt(Sub(ds, 1, e))
      fr == Sub(ds, e + 2, Len(ds))
  IN  Reduce(ip * Pow10(Len(fr)) + DigitsToInt(fr), Pow10(Len(fr)))

\* Array.from(l.matchAll(/([0-9]+(?:\.[0-9]+)?)/g), m => parseFloat(m[1])), scanning from i
RECURSIVE NumsFrom(_, _)
NumsFrom(l, i) ==
  IF i > Len(l) THEN <<>>
  ELSE IF l[i] \in Digits
       THEN <<ParseFloat(Sub(l, i, NumEnd(l, i)))>> \o NumsFrom(l, NumEnd(l, i) + 1)
       ELSE NumsFrom(l, i + 1)

Nums(l) == NumsFrom(l, 1)

\* first position at or after i that holds no white space (\s*)
RECURSIVE SkipSpace(_, _)
SkipSpace(l, i) ==
  IF i <= Len(l) /\ l[i] \in WhiteSpace THEN SkipSpace(l, i + 1) ELSE i

\* the match of /(num)\s*[-\u2013]\s*(num)/ that starts at i, if there is one.
\* The first number can only be the greedy one: a shorter alternative is followed
\* by a digit or a ".", never by white space or a dash.
RangeAt(l, i) ==
  IF i > Len(l) \/ l[i] \notin Digits THEN [ok |-> FALSE]
  ELSE LET e == NumEnd(l, i)
           j == SkipSpace(l, e + 1)
       IN  IF j > Len(l) \/ l[j] \notin RangeDashes THEN [ok |-> FALSE]
           ELSE LET k == SkipSpace(l, j + 1)
                IN  IF k > Len(l) \/ l[k] \notin Digits THEN [ok |-> FALSE]
                    ELSE [ok |-> TRUE,
                          lower |-> ParseFloat(Sub(l, i, e)),
                          upper |-> ParseFloat(Sub(l, k, NumEnd(l, k)))]

\* l.match(...): the leftmost match
RECURSIVE RangeMatchFrom(_, _)
RangeMatchFrom(l, i) ==
  IF i > Len(l) THEN [ok |-> FALSE]
  ELSE IF RangeAt(l, i).ok THEN RangeAt(l, i) ELSE RangeMatchFrom(l, i + 1)

RangeMatch(l) == RangeMatchFrom(l, 1)

\* the value taken from the end of nums instead of its start
PickValue_Last(nums) == nums[Len(nums)]

\* let value = null; if (nums.length > 0) value = nums[0]
PickValue(nums) == nums[1]

\* the record pushed for test t on line l, lines 33-48
MakeRecord(t, l) ==
  LET nums == Nums(l)
      rangeMatch == RangeMatch(l)
  IN  [test |-> t.key,
       line |-> l,
       value |-> IF Len(nums) > 0 THEN PickValue(nums) ELSE null,
       ref_lower |-> IF rangeMatch.ok THEN rangeMatch.lower ELSE null,
       ref_upper |-> IF rangeMatch.ok THEN rangeMatch.upper ELSE null]

\* for (const nm of t.names) { if (re.test(l)) { ...; break; } }
EntryMatches(t, l) == \E n \in 1..Len(t.names) : RegExpTestI(t.names[n], l)

\* the push skipped when the line holds no number
RECURSIVE LineRecordsFrom_SkipNoNumber(_, _)
LineRecordsFrom_SkipNoNumber(l, ti) ==
  IF ti > Len(tests) THEN <<>>
  ELSE (IF EntryMatches(tests[ti], l) /\ Nums(l) # <<>>
        THEN <<MakeRecord(tests[ti], l)>> ELSE <<>>)
       \o LineRecordsFrom_SkipNoNumber(l, ti + 1)

\* the scan of a line ended at the first registry entry that matches it
RECURSIVE LineRecordsFrom_FirstEntryOnly(_, _)
LineRecordsFrom_FirstEntryOnly(l, ti) ==
  IF ti > Len(tests) THEN <<>>
  ELSE IF EntryMatches(tests[ti], l) THEN <<MakeRecord(tests[ti], l)>>
  ELSE LineRecordsFrom_FirstEntryOnly(l, ti + 1)

\* the records one line adds to found: for (const t of tests) ..., lines 29-52
RECURSIVE LineRecordsFrom(_, _)
LineRecordsFrom(l, ti) ==
  IF ti > Len(tests) THEN <<>>
  ELSE (IF EntryMatches(tests[ti], l) THEN <<MakeRecord(tests[ti], l)>> ELSE <<>>)
       \o LineRecordsFrom(l, ti + 1)

LineRecords(l) == LineRecordsFrom(l, 1)

\* the dedup loop, lines 55-63
RECURSIVE DedupLoop(_, _, _)
DedupLoop(fs, dedup, seenKeys) ==
  IF fs = <<>> THEN dedup
  ELSE IF fs[1].test \notin seenKeys
       THEN DedupLoop(Tail(fs), Append(dedup, fs[1]), seenKeys \cup {fs[1].test})
       ELSE DedupLoop(Tail(fs), dedup, seenKeys)

\* const dedup = []; const seen = new Set(), lines 56-57
NewSeen(oldSeen) == {}

\* the loop without seen.add: nothing is ever recognised as a duplicate
Dedup_NoSeenAdd(fs, oldSeen) == fs

\* seen kept from the call before instead of created by this one
Dedup_StaleSeen(fs, oldSeen) == DedupLoop(fs, <<>>, oldSeen)

\* the records that were kept returned in the order of the registry
Dedup_RegistryOrder(fs, oldSeen) ==
  LET kept == DedupLoop(fs, <<>>, NewSeen(oldSeen))
      RECURSIVE ByEntry(_)
      ByEntry(ti) ==
        IF ti > Len(tests) THEN <<>>
        ELSE SelectSeq(kept, LAMBDA f : f.test = tests[ti].key) \o ByEntry(ti + 1)
  IN  ByEntry(1)

Dedup(fs, oldSeen) == DedupLoop(fs, <<>>, NewSeen(oldSeen))

\* lines 26-64: what the function returns once lines is computed
ParseLines(ls) ==
  LET RECURSIVE Scan(_)
      Scan(i) == IF i > Len(ls) THEN <<>> ELSE LineRecords(ls[i]) \o Scan(i + 1)
  IN  Dedup(Scan(1), {})

\* parseExtractedValues as a whole: the value returned for a string argument
ParseString(cs) == ParseLines(SplitLines(Normalize(cs)))

(***************************************************************************)
(* Inputs of the parser                                                    *)
(***************************************************************************)
MaxPhrase == 5
MaxLines == 3

HemoglobinName == <<"H", "e", "m", "o", "g", "l", "o", "b", "i", "n">>
mchcName == <<"m", "c", "h", "c">>

GlucoseText ==
  <<"F", "a", "s", "t", "i", "n", "g", " ", "G", "l", "u", "c", "o", "s", "e", " ",
    "1", "0", "5", " ", "m", "g", "/", "d", "L", " ", "(", "7", "0", "-", "9", "9", ")">>

HemoglobinText ==
  <<"H", "e", "m", "o", "g", "l", "o", "b", "i", "n", " ", "(", "g", "/", "d", "L", ")", ":",
    " ", "1", "1", ".", "2", " ", " ", "(", "1", "3", ".", "0", "-", "1", "7", ".", "0", ")">>

\* what follows or precedes a test name on a line: every string of fewer than
\* MaxPhrase characters over digits, the decimal point, the dash and the space,
\* and every string of MaxPhrase characters over the digits and the dash
PhraseChars == {"1", "2", ".", "-", " "}
Phrases ==
  UNION {[1..n -> PhraseChars] : n \in 0..(MaxPhrase - 1)}
    \cup [1..MaxPhrase -> {"1", "2", "-"}]

EnDashed(p) == [i \in 1..Len(p) |-> IF p[i] = "-" THEN "ENDASH" ELSE p[i]]

OneLineTexts ==
  {HemoglobinName \o p : p \in Phrases}
    \cup {EnDashed(p) \o mchcName : p \in {q \in Phrases : Len(q) < MaxPhrase}}

\* whole lines of a report, with and without a test name, a number, a range,
\* surrounding white space
Pieces ==
  { HemoglobinName \o <<" ", "1", ".", "5", "0">>,
    <<" ", "h", "e", "m", "o", "g", "l", "o", "b", "i", "n", "NBSP", "2", "-", "1", "2", " ">>,
    <<"M", "C", "H", "C", " ", "0", "7">>,
    HemoglobinName,
    <<"x", " ", "1">>,
    <<>> }

LineBreaks == { <<"LF">>, <<"CR", "LF">> }

RECURSIVE Join(_, _)
Join(ps, br) ==
  IF ps = <<>> THEN <<>>
  ELSE IF Len(ps) = 1 THEN ps[1]
  ELSE ps[1] \o br \o Join(Tail(ps), br)

ManyLineTexts ==
  {Join(ps, br) : ps \in UNION {[1..n -> Pieces] : n \in 0..MaxLines}, br \in LineBreaks}

Texts ==
  {nullText, undefinedText}
    \cup {Str(cs) : cs \in OneLineTexts \cup ManyLineTexts \cup {GlucoseText, HemoglobinText}}

NoCall == <<[test |-> "(no call yet)"]>>

(***************************************************************************)
(* The parser as a state machine: one call of parseExtractedValues runs    *)
(* ParseCall, then ScanLine once per line, then ParseReturn.               *)
(***************************************************************************)
\* the locals a call starts with, line 26
NewFound(oldFound) == <<>>

\* lines 1-26: the guard, the normalisation, the split, const found = []
ParseCall ==
  /\ pcP \in {"idle", "returned"}
  /\ prevOut' = IF pcP = "returned" THEN out ELSE prevOut
  /\ IF Falsy(text)
     THEN /\ out' = <<>>
          /\ pcP' = "returned"
          /\ UNCHANGED <<lines, li, found, seen, raised>>
     ELSE IF text.kind # "string"
     THEN \* text.replace is not a function of null or undefined: TypeError
          /\ raised' = TRUE
          /\ pcP' = "threw"
          /\ UNCHANGED <<lines, li, found, seen, out>>
     ELSE /\ lines' = SplitLines(Normalize(text.chars))
          /\ found' = NewFound(found)
          /\ li' = 1
          /\ pcP' = "scan"
          /\ UNCHANGED <<seen, out, raised>>
  /\ UNCHANGED <<text, classifierVars, reportVars, routeVars, sheetVars>>

\* one iteration of for (const l of lines), lines 28-53
ScanLine ==
  /\ pcP = "scan"
  /\ li <= Len(lines)
  /\ found' = found \o LineRecords(lines[li])
  /\ li' = li + 1
  /\ UNCHANGED <<text, pcP, lines, seen, out, prevOut, raised, classifierVars, reportVars, routeVars, sheetVars>>

\* lines 55-64: dedup and return
ParseReturn ==
  /\ pcP = "scan"
  /\ li > Len(lines)
  /\ out' = Dedup(found, seen)
  /\ seen' = {out'[i].test : i \in 1..Len(out')}
  /\ pcP' = "returned"
  /\ UNCHANGED <<text, lines, li, found, prevOut, raised, classifierVars, reportVars, routeVars, sheetVars>>

(***************************************************************************)
(* The classifier: the prediction step and the hemoglobin override of      *)
(* POST /api/process/:reportId                                             *)
(***************************************************************************)
MaxItems == 2

GlucoseName ==
  <<"F", "a", "s", "t", "i", "n", "g", " ", "G", "l", "u", "c", "o", "s", "e">>
TotalHemoglobinName ==
  <<"T", "o", "t", "a", "l", " ", "H", "E", "M", "O", "G", "L", "O", "B", "I", "N">>

Sexes == {"F", "M", "unknown"}

\* a reference table row, models/WhoRange.js
WhoRange(name, sx, lo, hi, fl, fh) ==
  [test_name |-> name, sex |-> sx, lower_ref |-> lo, upper_ref |-> hi,
   flag_low |-> fl, flag_high |-> fh]

WhoTable ==
  { WhoRange(HemoglobinName, "M", Whole(10), Whole(20), 1, 1),
    WhoRange(HemoglobinName, "F", Whole(10), Whole(20), 1, 1),
    WhoRange(GlucoseName, "M", Whole(70), Whole(99), 1, 1),
    WhoRange(GlucoseName, "F", Whole(70), Whole(99), 1, 1) }

\* a table whose glucose rows switch one direction off each
WhoTableFlagsOff ==
  { WhoRange(HemoglobinName, "M", Whole(10), Whole(20), 1, 1),
    WhoRange(HemoglobinName, "F", Whole(10), Whole(20), 1, 1),
    WhoRange(GlucoseName, "M", Whole(70), Whole(99), 0, 1),
    WhoRange(GlucoseName, "F", Whole(70), Whole(99), 1, 0) }

Tables == { {}, WhoTable, WhoTableFlagsOff }

\* an extracted value as the classifier receives it
Item(name, v, lo, hi) ==
  [test |-> name, value |-> v, ref_lower |-> lo, ref_upper |-> hi]

HemoglobinValues ==
  {null, Whole(11), Whole(12), Whole(13), Whole(16), Num(175, 10), Whole(18)}
GlucoseValues == {null, Whole(65), Whole(85), Whole(105)}

ItemChoices ==
  {Item(HemoglobinName, v, null, null) : v \in HemoglobinValues}
    \cup {Item(HemoglobinName, v, Whole(13), Whole(17)) :
            v \in {null, Num(112, 10), Whole(13), Num(175, 10)}}
    \cup {Item(TotalHemoglobinName, v, null, null) : v \in {null, Whole(11)}}
    \cup {Item(GlucoseName, v, null, null) : v \in GlucoseValues}
    \cup {Item(GlucoseName, Whole(105), Whole(70), Whole(99))}

\* the items of a report carry the patient's sex when it is known
WithSex(x, sx) ==
  IF sx = "unknown" THEN x
  ELSE [test |-> x.test, value |-> x.value, ref_lower |-> x.ref_lower,
        ref_upper |-> x.ref_upper, sex |-> sx]

ItemLists(sx) ==
  UNION {[1..n -> {WithSex(x, sx) : x \in ItemChoices}] : n \in 0..MaxItems}

\* /hemoglobin/i.test(p.test)
hemoglobinPattern == <<"h", "e", "m", "o", "g", "l", "o", "b", "i", "n">>
IsHemoglobin(name) == RegExpTestI(hemoglobinPattern, name)

\* p.value < bound and p.value > bound; null converts to 0
ToNumber(v) == IF v.kind = "null" THEN Whole(0) ELSE v
\* the comparison written <= instead of <
JsLess_OrEqual(v, bound) == ~NumLess(bound, ToNumber(v))

JsLess(v, bound) == NumLess(ToNumber(v), bound)
JsGreater(v, bound) == NumLess(bound, ToNumber(v))

\* items.find((x) => /hemoglobin/i.test(x.test))?.sex || "M"
HemoglobinSex(its) ==
  LET hits == SelectSeq(its, LAMBDA x : IsHemoglobin(x.test))
  IN  IF hits # <<>> /\ "sex" \in DOMAIN hits[1] THEN hits[1].sex ELSE "M"

HemoglobinLower(sx) == IF sx = "F" THEN Whole(12) ELSE Whole(13)
HemoglobinUpper(sx) == IF sx = "F" THEN Whole(16) ELSE Num(175, 10)

\* p.prediction = ...; p.rule_overridden = true (the other fields of p stay)
SetOverride(p, pred) ==
  [f \in DOMAIN p \cup {"prediction", "rule_overridden"} |->
     IF f = "prediction" THEN pred
     ELSE IF f = "rule_overridden" THEN TRUE
     ELSE p[f]]

\* the override giving way to the record's own inline range when it has one
HemoglobinRuleOne_InlineFirst(p, its) ==
  IF IsHemoglobin(p.test)
  THEN LET sx == HemoglobinSex(its)
           inline == p.ref_lower.kind = "number" /\ p.ref_upper.kind = "number"
           lower == IF inline THEN p.ref_lower ELSE HemoglobinLower(sx)
           upper == IF inline THEN p.ref_upper ELSE HemoglobinUpper(sx)
       IN  IF JsLess(p.value, lower) THEN SetOverride(p, "low")
           ELSE IF JsGreater(p.value, upper) THEN SetOverride(p, "high")
           ELSE SetOverride(p, "normal")
  ELSE p

\* the body of the map callback, process.js lines 16-28
HemoglobinRuleOne(p, its) ==
  IF IsHemoglobin(p.test)
  THEN LET sx == HemoglobinSex(its)
           lower == HemoglobinLower(sx)
           upper == HemoglobinUpper(sx)
       IN  IF JsLess(p.value, lower) THEN SetOverride(p, "low")
           ELSE IF JsGreater(p.value, upper) THEN SetOverride(p, "high")
           ELSE SetOverride(p, "normal")
  ELSE p

\* the rule returning the hemoglobin records ahead of the other records
applyHemoglobinRule_HemoglobinFirst(preds, its) ==
  LET mapped == [i \in 1..Len(preds) |-> HemoglobinRuleOne(preds[i], its)]
  IN  SelectSeq(mapped, LAMBDA p : IsHemoglobin(p.test))
        \o SelectSeq(mapped, LAMBDA p : ~IsHemoglobin(p.test))

\* preds.map((p) => ...), process.js lines 15-29
applyHemoglobinRule(preds, its) ==
  [i \in 1..Len(preds) |-> HemoglobinRuleOne(preds[i], its)]

\* the table row looked up before the record's inline range
ResolveBounds_TableFirst(x, sx, tbl) ==
  LET rows == {r \in tbl : r.test_name = x.test
                            /\ r.sex = (IF sx = "unknown" THEN "M" ELSE sx)}
  IN  IF rows # {}
      THEN LET r == CHOOSE r \in rows : TRUE
           IN  [ok |-> TRUE, lower |-> r.lower_ref, upper |-> r.upper_ref,
                flag_low |-> r.flag_low, flag_high |-> r.flag_high]
      ELSE IF x.ref_lower.kind = "number" /\ x.ref_upper.kind = "number"
      THEN [ok |-> TRUE, lower |-> x.ref_lower, upper |-> x.ref_upper,
            flag_low |-> 1, flag_high |-> 1]
      ELSE [ok |-> FALSE]

\* ml/predict_model.py, the general rule of the Range Classifier: bounds from the
\* record's inline range, otherwise from the table row for (test name, sex)
ResolveBounds(x, sx, tbl) ==
  IF x.ref_lower.kind = "number" /\ x.ref_upper.kind = "number"
  THEN [ok |-> TRUE, lower |-> x.ref_lower, upper |-> x.ref_upper,
        flag_low |-> 1, flag_high |-> 1]
  ELSE LET rows == {r \in tbl : r.test_name = x.test
                                 /\ r.sex = (IF sx = "unknown" THEN "M" ELSE sx)}
       IN  IF rows = {} THEN [ok |-> FALSE]
           ELSE LET r == CHOOSE r \in rows : TRUE
                IN  [ok |-> TRUE, lower |-> r.lower_ref, upper |-> r.upper_ref,
                     flag_low |-> r.flag_low, flag_high |-> r.flag_high]

WithPrediction(x, pred) ==
  [f \in DOMAIN x \cup {"prediction"} |-> IF f = "prediction" THEN pred ELSE x[f]]

\* a record without bounds called normal
PredictOne_DefaultNormal(x, sx, tbl) ==
  LET b == ResolveBounds(x, sx, tbl)
  IN  IF x.value.kind = "null" THEN x
      ELSE IF ~b.ok THEN WithPrediction(x, "normal")
      ELSE IF NumLess(x.value, b.lower)
           THEN WithPrediction(x, IF b.flag_low = 1 THEN "low" ELSE "normal")
      ELSE IF NumLess(b.upper, x.value)
           THEN WithPrediction(x, IF b.flag_high = 1 THEN "high" ELSE "normal")
      ELSE WithPrediction(x, "normal")

\* the flags of the table row not looked at
PredictOne_IgnoreFlags(x, sx, tbl) ==
  LET b == ResolveBounds(x, sx, tbl)
  IN  IF x.value.kind = "null" \/ ~b.ok THEN x
      ELSE IF NumLess(x.value, b.lower) THEN WithPrediction(x, "low")
      ELSE IF NumLess(b.upper, x.value) THEN WithPrediction(x, "high")
      ELSE WithPrediction(x, "normal")

PredictOne(x, sx, tbl) ==
  LET b == ResolveBounds(x, sx, tbl)
  IN  IF x.value.kind = "null" \/ ~b.ok THEN x
      ELSE IF NumLess(x.value, b.lower)
           THEN WithPrediction(x, IF b.flag_low = 1 THEN "low" ELSE "normal")
      ELSE IF NumLess(b.upper, x.value)
           THEN WithPrediction(x, IF b.flag_high = 1 THEN "high" ELSE "normal")
      ELSE WithPrediction(x, "normal")

\* step 3 of the route, process.js lines 69-80: predictions of the predict script
Predict ==
  /\ pcC = "items"
  /\ predictions' = [i \in 1..Len(items) |-> PredictOne(items[i], sex, table)]
  /\ pcC' = "predicted"
  /\ UNCHANGED <<sex, table, items, finalPreds, parserVars, reportVars, routeVars, sheetVars>>

\* process.js line 81.  map returns the objects of predictions themselves, so the
\* assignments of the callback show in predictions as well
ApplyRule ==
  /\ pcC = "predicted"
  /\ finalPreds' = applyHemoglobinRule(predictions, items)
  /\ predictions' = finalPreds'
  /\ pcC' = "classified"
  /\ UNCHANGED <<sex, table, items, parserVars, reportVars, routeVars, sheetVars>>

(***************************************************************************)
(* GET /api/reports/:id/file, routes/reports.js lines 50-76.  Paths are    *)
(* POSIX paths, strings of characters as above.                            *)
(***************************************************************************)
MaxSegments == 3

Chars(name) ==
  [app |-> <<"a", "p", "p">>,
   backend |-> <<"b", "a", "c", "k", "e", "n", "d">>,
   uploads |-> <<"u", "p", "l", "o", "a", "d", "s">>,
   uploadsOld |-> <<"u", "p", "l", "o", "a", "d", "s", "-", "o", "l", "d">>,
   up |-> <<".", ".">>,
   file |-> <<"f", ".", "p", "d", "f">>][name]

\* process.cwd()
cwd == <<"/">> \o Chars("app")

\* s.split("/")
RECURSIVE SplitSlash(_, _)
SplitSlash(s, cur) ==
  IF s = <<>> THEN <<cur>>
  ELSE IF s[1] = "/" THEN <<cur>> \o SplitSlash(Tail(s), <<>>)
       ELSE SplitSlash(Tail(s), Append(cur, s[1]))

\* the segments of an absolute path with "", "." and ".." resolved; ".." at the
\* root stays at the root
RECURSIVE NormalizeSegments(_, _)
NormalizeSegments(segs, acc) ==
  IF segs = <<>> THEN acc
  ELSE IF segs[1] = <<>> \/ segs[1] = <<".">> THEN NormalizeSegments(Tail(segs), acc)
  ELSE IF segs[1] = <<".", ".">>
       THEN NormalizeSegments(Tail(segs),
                              IF acc = <<>> THEN acc ELSE SubSeq(acc, 1, Len(acc) - 1))
  ELSE NormalizeSegments(Tail(segs), Append(acc, segs[1]))

RECURSIVE JoinSlash(_)
JoinSlash(segs) ==
  IF segs = <<>> THEN <<>> ELSE <<"/">> \o segs[1] \o JoinSlash(Tail(segs))

IsAbsolute(p) == p # <<>> /\ p[1] = "/"

\* path.resolve(p): p made absolute against the working directory, normalised,
\* without a trailing slash
PathResolve(p) ==
  LET whole == IF IsAbsolute(p) THEN p ELSE cwd \o <<"/">> \o p
      segs == NormalizeSegments(SplitSlash(whole, <<>>), <<>>)
  IN  IF segs = <<>> THEN <<"/">> ELSE JoinSlash(segs)

\* path.join(a, b) for an absolute a: the two joined by a slash and normalised,
\* a trailing slash kept
PathJoin(a, b) ==
  LET whole == IF b = <<>> THEN a ELSE a \o <<"/">> \o b
      segs == NormalizeSegments(SplitSlash(whole, <<>>), <<>>)
      trailing == whole[Len(whole)] = "/"
  IN  IF segs = <<>> THEN <<"/">>
      ELSE JoinSlash(segs) \o (IF trailing THEN <<"/">> ELSE <<>>)

\* String.prototype.startsWith
StartsWith(s, prefix) ==
  Len(prefix) <= Len(s) /\ SubSeq(s, 1, Len(prefix)) = prefix

\* a || b for strings
OrElse(a, b) == IF Falsy(a) THEN b ELSE a

\* line 57
UploadsRoot(env) ==
  PathResolve(OrElse(env, Str(PathJoin(PathJoin(cwd, Chars("backend")), Chars("uploads")))).chars)

\* lines 59-60
Candidate(doc, root) ==
  OrElse(doc.storagePath, Str(PathJoin(root, OrElse(doc.filename, Str(<<>>)).chars)))

\* the values of process.env.UPLOAD_DIR
UploadDirs ==
  { undefinedText,
    Str(<<"/">> \o Chars("uploads")),
    Str(Chars("uploads") \o <<"/">>) }

SegmentChoices == {"app", "backend", "uploads", "uploadsOld", "up", "file"}

RECURSIVE JoinSegments(_)
JoinSegments(names) ==
  IF Len(names) = 1 THEN Chars(names[1])
  ELSE Chars(names[1]) \o <<"/">> \o JoinSegments(Tail(names))

RelativePaths ==
  {JoinSegments(names) : names \in UNION {[1..n -> SegmentChoices] : n \in 1..MaxSegments}}

\* the paths a report document may hold in storagePath
StoragePaths == RelativePaths \cup {<<"/">> \o p : p \in RelativePaths}

\* the names a report document may hold in filename
Filenames ==
  { undefinedText, Str(<<>>), Str(Chars("file")),
    Str(Chars("up") \o <<"/">> \o Chars("uploadsOld") \o <<"/">> \o Chars("file")),
    Str(Chars("up") \o <<"/">> \o Chars("up") \o <<"/">> \o Chars("up") \o <<"/">> \o Chars("file")) }

ReportDoc(sp, fn) == [kind |-> "doc", storagePath |-> sp, filename |-> fn]
noReport == [kind |-> "null", storagePath |-> undefinedText, filename |-> undefinedText]

\* what Report.findById(id).lean() resolves to
ReportDocs ==
  {ReportDoc(Str(p), Str(Chars("file"))) : p \in StoragePaths}
    \cup {ReportDoc(sp, fn) : sp \in {undefinedText, nullText, Str(<<>>)}, fn \in Filenames}
    \cup {noReport}

Response(st, m, f) == [status |-> st, msg |-> m, file |-> f]
noResponse == Response(0, "", <<>>)

\* lines 52-54 and the catch of lines 71-74: the lookup of the report
GetFileLookup ==
  /\ pcR = "request"
  /\ IF ~idValid
     THEN \* findById rejects an id that is no ObjectId
          /\ response' = Response(500, "err.message", <<>>)
          /\ pcR' = "responded"
     ELSE IF report.kind = "null"
     THEN /\ response' = Response(404, "Report not found", <<>>)
          /\ pcR' = "responded"
     ELSE /\ pcR' = "found"
          /\ UNCHANGED response
  /\ UNCHANGED <<uploadDir, report, idValid, uploadsRoot, resolved, parserVars, classifierVars, routeVars, sheetVars>>

\* lines 56-70: the path check and the response
GetFileRespond ==
  /\ pcR = "found"
  /\ uploadsRoot' = UploadsRoot(uploadDir)
  /\ resolved' = PathResolve(Candidate(report, uploadsRoot').chars)
  /\ IF ~StartsWith(resolved', uploadsRoot')
     THEN response' = Response(400, "Invalid file path", <<>>)
     ELSE \E existsSync \in BOOLEAN :
            response' = IF ~existsSync
                        THEN Response(404, "File missing on disk", <<>>)
                        ELSE Response(200, "", resolved')
  /\ pcR' = "responded"
  /\ UNCHANGED <<uploadDir, report, idValid, parserVars, classifierVars, routeVars, sheetVars>>

ReportsIdle ==
  /\ uploadDir = undefinedText /\ report = noReport /\ idValid = TRUE
  /\ uploadsRoot = <<>> /\ resolved = <<>> /\ response = noResponse
  /\ pcR = "off"

\* the process route at rest
ProcessIdle ==
  /\ stored = {} /\ prevStored = {} /\ procReport = {} /\ tmpFiles = {}
  /\ tmpExtracted = {} /\ tmpParsed = {} /\ extractedText = <<>>
  /\ recommendations = {} /\ steps = <<>> /\ procResponse = {} /\ clock = 0
  /\ pcProc = "off"

ExtractorIdle == calls = <<>> /\ outFiles = <<>>

RecommendationsIdle ==
  /\ recChild = "off" /\ recStdout = <<>> /\ recTmpFile = FALSE
  /\ recPromise = {} /\ recCode = -1

ImageIdle ==
  /\ pcImg = "off" /\ imgFile = <<>> /\ pipelineRaw = <<>> /\ pipelineJson = ""
  /\ recJson = "" /\ savedReport = {} /\ reportsDb = {} /\ imgResponse = {}

RoutesIdle == ProcessIdle /\ ExtractorIdle /\ RecommendationsIdle /\ ImageIdle

SheetIdle ==
  /\ pcSheet = "off" /\ loading = FALSE /\ onCloseCalls = 0 /\ presses = 0
  /\ sent = <<>> /\ uploadResp = {}

ParserIdle ==
  /\ text = nullText /\ pcP = "off"
  /\ lines = <<>> /\ li = 1 /\ found = <<>> /\ seen = {}
  /\ out = NoCall /\ prevOut = NoCall
  /\ raised = FALSE

InitClassifier ==
  /\ sex \in Sexes
  /\ table \in Tables
  /\ items \in ItemLists(sex)
  /\ predictions = <<>>
  /\ finalPreds = <<>>
  /\ pcC = "items"
  /\ ParserIdle
  /\ ReportsIdle
  /\ RoutesIdle
  /\ SheetIdle

NextClassifier == Predict \/ ApplyRule

SpecClassifier == InitClassifier /\ [][NextClassifier]_vars

ClassifierIdle ==
  /\ sex = "M" /\ table = {} /\ items = <<>> /\ predictions = <<>>
  /\ finalPreds = <<>> /\ pcC = "off"

InitParser ==
  /\ text \in Texts
  /\ pcP = "idle"
  /\ lines = <<>> /\ li = 1 /\ found = <<>> /\ seen = {}
  /\ out = NoCall /\ prevOut = NoCall
  /\ raised = FALSE
  /\ ClassifierIdle
  /\ ReportsIdle
  /\ RoutesIdle
  /\ SheetIdle

NextParser == ParseCall \/ ScanLine \/ ParseReturn

SpecParser == InitParser /\ [][NextParser]_vars

InitReports ==
  /\ uploadDir \in UploadDirs
  /\ report \in ReportDocs
  /\ idValid \in BOOLEAN
  /\ uploadsRoot = <<>> /\ resolved = <<>> /\ response = noResponse
  /\ pcR = "request"
  /\ ParserIdle
  /\ ClassifierIdle
  /\ RoutesIdle
  /\ SheetIdle

NextReports == GetFileLookup \/ GetFileRespond

SpecReports == InitReports /\ [][NextReports]_vars

(***************************************************************************)
(* The two upload routes as far as they create the report that             *)
(* GET /api/reports/:id/file serves later: routes/upload.js lines 10-40    *)
(* and routes/uploadimage.js lines 14-25 and 132-136.                      *)
(***************************************************************************)
\* Date.now() and Math.round(Math.random() * 1e6) at the time of an upload
Stamps == {<<"1">>, <<"2">>}
Randoms == {<<"0">>, <<"7">>}

\* path.extname(file.originalname)
Extnames == {<<>>, <<".", "p", "d", "f">>, <<".", "p", "n", "g">>}

\* upload.js line 17: `${Date.now()}-${Math.round(Math.random()*1e6)}${ext}`
UploadName(now, rnd, ext) == now \o <<"-">> \o rnd \o ext

\* uploadimage.js lines 21-23: the extension defaults to ".png"
UploadImageName(now, rnd, ext) ==
  now \o <<"-">> \o rnd \o (IF ext = <<>> THEN <<".", "p", "n", "g">> ELSE ext)

\* upload.js line 10: process.env.UPLOAD_DIR || "./uploads"
UPLOAD_DIR(env) == OrElse(env, Str(<<".", "/">> \o Chars("uploads"))).chars

\* uploadimage.js line 14: path.join(process.cwd(), "backend", "uploads")
uploadDirOfImages == PathJoin(PathJoin(cwd, Chars("backend")), Chars("uploads"))

\* multer's file.path: the destination joined with the file name; a relative
\* destination stays relative
FilePath(dest, name) ==
  IF IsAbsolute(dest) THEN PathJoin(dest, name)
  ELSE LET segs == NormalizeSegments(SplitSlash(dest \o <<"/">> \o name, <<>>), <<>>)
       IN  Tail(JoinSlash(segs))

\* POST /api/upload, upload.js lines 25-42: the report it creates
PostUpload ==
  /\ pcR = "idle"
  /\ \E now \in Stamps, rnd \in Randoms, ext \in Extnames :
       LET name == UploadName(now, rnd, ext)
       IN  report' = ReportDoc(Str(PathResolve(FilePath(UPLOAD_DIR(uploadDir), name))),
                               Str(name))
  /\ pcR' = "request"
  /\ UNCHANGED <<uploadDir, idValid, uploadsRoot, resolved, response,
                 parserVars, classifierVars, routeVars, sheetVars>>

\* POST /api/uploadimage, uploadimage.js lines 132-143: the report it creates
PostUploadImage ==
  /\ pcR = "idle"
  /\ \E now \in Stamps, rnd \in Randoms, ext \in Extnames :
       LET name == UploadImageName(now, rnd, ext)
       IN  report' = ReportDoc(Str(PathResolve(FilePath(uploadDirOfImages, name))),
                               Str(name))
  /\ pcR' = "request"
  /\ UNCHANGED <<uploadDir, idValid, uploadsRoot, resolved, response,
                 parserVars, classifierVars, routeVars, sheetVars>>

InitUploads ==
  /\ uploadDir \in UploadDirs
  /\ report = noReport
  /\ idValid = TRUE
  /\ uploadsRoot = <<>> /\ resolved = <<>> /\ response = noResponse
  /\ pcR = "idle"
  /\ ParserIdle
  /\ ClassifierIdle
  /\ RoutesIdle
  /\ SheetIdle

NextUploads == PostUpload \/ PostUploadImage \/ GetFileLookup \/ GetFileRespond

SpecUploads == InitUploads /\ [][NextUploads]_vars

(***************************************************************************)
(* POST /api/process/:reportId, routes/process.js lines 31-109.  stored is *)
(* the report in the database, procReport the object findById returned, tmpFiles  *)
(* the temporary files on disk beside the upload, steps the steps the      *)
(* requests ran with what each of them met, prevStored the stored report   *)
(* when the request arrived.                                               *)
(***************************************************************************)
MaxRequests == 2

\* what a child process or a promise ended with: spawnSync's error and status
\* (status is null, written -1, when the child could not be run) and what it
\* left as output
Outcome(err, st, o) == [error |-> err, status |-> st, output |-> o]
SpawnResults == {Outcome(FALSE, 0, "ok"), Outcome(FALSE, 1, "ok"), Outcome(TRUE, -1, "ok")}

Step(s, oc) == [step |-> s, error |-> oc.error, status |-> oc.status, output |-> oc.output]

ReportText == <<"H", "b", " ", "1", "1">>

\* line 84: the default recommendations
defaultRecommendations ==
  [overall_risk |-> "unknown", suggestions |-> <<>>, specialist_referrals |-> <<>>]
geminiRecommendations ==
  [overall_risk |-> "low", suggestions |-> <<"rest">>, specialist_referrals |-> <<>>]
noRecommendations ==
  [overall_risk |-> "", suggestions |-> <<>>, specialist_referrals |-> <<>>]

StoredReport(k, t, vs, ps, rs, pr) ==
  [kind |-> k, extractedText |-> t, extractedValues |-> vs, mlPredictions |-> ps,
   recommendations |-> rs, processed |-> pr]
noStored == StoredReport("null", <<>>, <<>>, <<>>, noRecommendations, FALSE)
\* the report POST /api/upload creates, upload.js lines 33-40
uploadedReport == StoredReport("doc", <<>>, <<>>, <<>>, noRecommendations, FALSE)
\* the report POST /api/uploadimage creates, uploadimage.js lines 132-143
imageReport ==
  StoredReport("doc", <<"{", "}">>, <<>>, <<>>, defaultRecommendations, TRUE)

\* the items the parse script leaves in tmpParsed
ParsedItems ==
  { <<>>,
    <<WithSex(Item(HemoglobinName, Whole(11), null, null), "F")>>,
    <<Item(GlucoseName, Whole(105), null, null),
      Item(HemoglobinName, Whole(18), Whole(13), Whole(17))>> }

\* path.join(path.dirname(filePath), `${Date.clock()}_extracted.json`), lines 55, 57
TmpName(stamp, suffix) == [stamp |-> stamp, suffix |-> suffix]

\* the parse failure test reading the spawn error alone
ParseFailed_ErrorOnly(parseOut) == parseOut.error

\* line 62: parseOut.error || parseOut.status !== 0
ParseFailed(parseOut) == parseOut.error \/ parseOut.status # 0

\* line 75: predict.error || predict.status !== 0
PredictFailed(predict) == predict.error \/ predict.status # 0

\* the rejection of runRecommendations ending the request's recommendations empty
RecommendationsOf_NoneOnFailure(oc, value) ==
  IF oc.error \/ oc.status # 0 \/ oc.output # "ok" THEN noRecommendations ELSE value

\* lines 84-92: the default stays when runRecommendations rejects
RecommendationsOf(oc, value) ==
  IF oc.error \/ oc.status # 0 \/ oc.output # "ok" THEN defaultRecommendations
  ELSE value

Respond(st, m) == [status |-> st, msg |-> m]

\* a request arrives
ProcessRequest ==
  /\ pcProc \in {"idle", "responded"}
  /\ clock < MaxRequests
  /\ clock' = clock + 1
  /\ prevStored' = stored
  /\ procReport' = noStored
  /\ tmpExtracted' = TmpName(0, "") /\ tmpParsed' = TmpName(0, "")
  /\ extractedText' = <<>>
  /\ recommendations' = noRecommendations
  /\ items' = <<>> /\ predictions' = <<>> /\ finalPreds' = <<>>
  /\ steps' = <<>>
  /\ procResponse' = Respond(0, "")
  /\ pcProc' = "lookup"
  /\ UNCHANGED <<stored, tmpFiles, sex, table, pcC, processRest>>

\* lines 33-38: findById and the file on disk
ProcessLookup ==
  /\ pcProc = "lookup"
  /\ \E onDisk \in BOOLEAN :
       /\ steps' = Append(steps, Step("lookup",
                     Outcome(FALSE, 0, IF stored.kind = "null" THEN "none"
                                       ELSE IF onDisk THEN "ok" ELSE "missing")))
       /\ IF stored.kind = "null"
          THEN /\ procResponse' = Respond(404, "Report not found")
               /\ pcProc' = "responded"
               /\ UNCHANGED procReport
          ELSE /\ procReport' = stored
               /\ IF ~onDisk
                  THEN /\ procResponse' = Respond(400, "File missing")
                       /\ pcProc' = "responded"
                  ELSE /\ pcProc' = "extract"
                       /\ UNCHANGED procResponse
  /\ UNCHANGED <<stored, prevStored, tmpFiles, tmpExtracted, tmpParsed, extractedText,
                 recommendations, clock, classifierVars, processRest>>

\* lines 50-52: runExtractor rejects, or resolves with a text that may be empty
ProcessExtract ==
  /\ pcProc = "extract"
  /\ \E oc \in {Outcome(TRUE, 0, "none"), Outcome(FALSE, 0, "empty"),
                Outcome(FALSE, 0, "ok")} :
       /\ steps' = Append(steps, Step("extract", oc))
       /\ IF oc.error
          THEN /\ procResponse' = Respond(500, "runExtractor")
               /\ pcProc' = "responded"
               /\ UNCHANGED extractedText
          ELSE /\ extractedText' = (IF oc.output = "ok" THEN ReportText ELSE <<>>)
               /\ IF extractedText' = <<>>
                  THEN /\ procResponse' = Respond(500, "Extraction failed")
                       /\ pcProc' = "responded"
                  ELSE /\ pcProc' = "parse"
                       /\ UNCHANGED procResponse
  /\ UNCHANGED <<stored, prevStored, procReport, tmpFiles, tmpExtracted, tmpParsed,
                 recommendations, clock, classifierVars, processRest>>

\* lines 55-67: the two temporary files and the parse script
ProcessParse ==
  /\ pcProc = "parse"
  /\ \E written \in BOOLEAN, tick \in {0, 1}, parseOut \in SpawnResults,
        left \in {"none", "bad", "ok"}, its \in ParsedItems :
       LET extractedName == TmpName(clock, "_extracted.json")
           parsedName == TmpName(clock + tick, "_items.json")
           ran == written /\ ~parseOut.error
           file == IF ran THEN left ELSE "none"
       IN  /\ steps' = Append(steps, Step("parse",
                         Outcome(parseOut.error \/ ~written, parseOut.status, file)))
           /\ tmpExtracted' = extractedName
           /\ IF ~written
              THEN \* writeFileSync throws
                   /\ procResponse' = Respond(500, "writeFileSync")
                   /\ pcProc' = "responded"
                   /\ UNCHANGED <<tmpFiles, tmpParsed, items>>
              ELSE /\ tmpParsed' = parsedName
                   /\ tmpFiles' = tmpFiles \cup {extractedName}
                                    \cup (IF file = "none" THEN {} ELSE {parsedName})
                   /\ IF ParseFailed(parseOut)
                      THEN /\ procResponse' = Respond(500, "Parsing failed")
                           /\ pcProc' = "responded"
                           /\ UNCHANGED items
                      ELSE IF file # "ok"
                      THEN \* readFileSync or JSON.parse throws
                           /\ procResponse' = Respond(500, "JSON.parse")
                           /\ pcProc' = "responded"
                           /\ UNCHANGED items
                      ELSE /\ items' = its
                           /\ pcProc' = "predict"
                           /\ UNCHANGED procResponse
  /\ UNCHANGED <<stored, prevStored, procReport, extractedText, recommendations, clock,
                 sex, table, predictions, finalPreds, pcC, processRest>>

\* lines 70-81: the predict script and the hemoglobin override; the override
\* assigns to the records of predictions themselves
ProcessPredict ==
  /\ pcProc = "predict"
  /\ \E predict \in SpawnResults, stdout \in {"empty", "bad", "ok"} :
       /\ steps' = Append(steps, Step("predict",
                     Outcome(predict.error, predict.status,
                             IF predict.error THEN "empty" ELSE stdout)))
       /\ IF PredictFailed(predict)
          THEN /\ procResponse' = Respond(500, "Prediction failed")
               /\ pcProc' = "responded"
               /\ UNCHANGED <<predictions, finalPreds>>
          ELSE IF stdout = "bad"
          THEN \* JSON.parse throws
               /\ procResponse' = Respond(500, "JSON.parse")
               /\ pcProc' = "responded"
               /\ UNCHANGED <<predictions, finalPreds>>
          ELSE /\ finalPreds' = applyHemoglobinRule(
                     IF stdout = "empty" THEN <<>>
                     ELSE [i \in 1..Len(items) |-> PredictOne(items[i], sex, table)],
                     items)
               /\ predictions' = finalPreds'
               /\ pcProc' = "recommend"
               /\ UNCHANGED procResponse
  /\ UNCHANGED <<stored, prevStored, procReport, tmpFiles, tmpExtracted, tmpParsed,
                 extractedText, recommendations, clock, sex, table, items, pcC,
                 processRest>>

\* lines 84-92: runRecommendations resolves or rejects
ProcessRecommend ==
  /\ pcProc = "recommend"
  /\ \E oc \in SpawnResults \cup {Outcome(FALSE, 0, "bad")} :
       /\ steps' = Append(steps, Step("recommend", oc))
       /\ recommendations' = RecommendationsOf(oc, geminiRecommendations)
  /\ pcProc' = "save"
  /\ UNCHANGED <<stored, prevStored, procReport, tmpFiles, tmpExtracted, tmpParsed,
                 extractedText, procResponse, clock, classifierVars, processRest>>

\* lines 95-100: the fields of the report object and the call of save
ProcessSave ==
  /\ pcProc = "save"
  /\ procReport' = StoredReport("doc", extractedText, items, finalPreds, recommendations, TRUE)
  /\ pcProc' = "saving"
  /\ UNCHANGED <<stored, prevStored, tmpFiles, tmpExtracted, tmpParsed, extractedText,
                 recommendations, steps, procResponse, clock, classifierVars,
                 processRest>>

\* lines 100-108: save settles; the temporary files are unlinked after a save
\* that succeeded, the second one only when the first unlink did not throw
ProcessSaved ==
  /\ pcProc = "saving"
  /\ \E saved \in BOOLEAN :
       /\ steps' = Append(steps, Step("save", Outcome(~saved, 0, "ok")))
       /\ IF saved
          THEN /\ stored' = procReport
               /\ tmpFiles' = IF tmpExtracted \in tmpFiles
                              THEN tmpFiles \ {tmpExtracted, tmpParsed}
                              ELSE tmpFiles
               /\ procResponse' = Respond(200, "ok")
          ELSE /\ procResponse' = Respond(500, "save")
               /\ UNCHANGED <<stored, tmpFiles>>
  /\ pcProc' = "responded"
  /\ UNCHANGED <<prevStored, procReport, tmpExtracted, tmpParsed, extractedText,
                 recommendations, clock, classifierVars, processRest>>

InitProcess ==
  /\ stored \in {noStored, uploadedReport, imageReport}
  /\ prevStored = stored /\ procReport = noStored
  /\ tmpFiles = {}
  /\ tmpExtracted = TmpName(0, "") /\ tmpParsed = TmpName(0, "")
  /\ extractedText = <<>>
  /\ recommendations = noRecommendations
  /\ steps = <<>>
  /\ procResponse = Respond(0, "")
  /\ clock = 0
  /\ pcProc = "idle"
  /\ sex \in {"F", "M"} /\ table = WhoTable
  /\ items = <<>> /\ predictions = <<>> /\ finalPreds = <<>> /\ pcC = "off"
  /\ ParserIdle
  /\ ReportsIdle
  /\ ExtractorIdle
  /\ RecommendationsIdle
  /\ ImageIdle
  /\ SheetIdle

NextProcess ==
  \/ ProcessRequest \/ ProcessLookup \/ ProcessExtract \/ ProcessParse
  \/ ProcessPredict \/ ProcessRecommend \/ ProcessSave \/ ProcessSaved

SpecProcess == InitProcess /\ [][NextProcess]_vars

(***************************************************************************)
(* runExtractor, utils/runExtractor.js lines 5-49.  Each call spawns one   *)
(* run of the extractor script; the script leaves its output in            *)
(* <basename>_extracted.json in the working directory or beside the        *)
(* script.  outFiles gives for each such file the run whose output it      *)
(* holds, run 0 when the file does not exist.                              *)
(***************************************************************************)
MaxCalls == 2

Runs == 1..MaxCalls
\* path.basename(filePath, path.extname(filePath))
Basenames == {"report", "scan"}
\* path.resolve(outName) and path.resolve(path.dirname(absScript), outName)
OutDirs == {"cwd", "scriptDir"}

Call(st, base, settled, v) == [state |-> st, base |-> base, settled |-> settled, value |-> v]

\* resolve and reject settle a promise once; later calls do nothing
Settle(c, how, v) ==
  IF c.settled = "pending" THEN [c EXCEPT !.settled = how, !.value = v] ELSE c

\* lines 7-10: the promise is created and the script spawned
ExtractorCall(r) ==
  /\ calls[r].state = "idle"
  /\ \E base \in Basenames :
       calls' = [calls EXCEPT ![r] = Call("running", base, "pending", 0)]
  /\ UNCHANGED <<outFiles, extractorRest>>

\* what a file holds: the run that wrote it and whether JSON.parse accepts it
Written(r, json) == [run |-> r, json |-> json]
noFile == Written(0, FALSE)

\* the script writes its output
ExtractorWrites(r) ==
  /\ calls[r].state = "running"
  /\ \E dir \in OutDirs, json \in BOOLEAN :
       outFiles' = [outFiles EXCEPT ![<<dir, calls[r].base>>] = Written(r, json)]
  /\ UNCHANGED <<calls, extractorRest>>

\* lines 28-33 and 38-44: the file read and parsed
ReadOutput(c, file) ==
  IF file.json THEN Settle(c, "resolved", file.run) ELSE Settle(c, "rejected", 0)

\* lines 18-45: the 'close' event
ExtractorClose(r) ==
  /\ calls[r].state = "running"
  /\ \E code \in {0, 1} :
       LET outPath == <<"cwd", calls[r].base>>
           alt == <<"scriptDir", calls[r].base>>
           closed == [calls[r] EXCEPT !.state = "closed"]
       IN  calls' = [calls EXCEPT ![r] =
             IF code # 0 THEN Settle(closed, "rejected", 0)
             ELSE IF outFiles[outPath] = noFile
             THEN IF outFiles[alt] # noFile THEN ReadOutput(closed, outFiles[alt])
                  ELSE Settle(closed, "rejected", 0)
             ELSE ReadOutput(closed, outFiles[outPath])]
  /\ UNCHANGED <<outFiles, extractorRest>>

\* line 47: the 'error' event of a script that could not be run
ExtractorError(r) ==
  /\ calls[r].state = "running"
  /\ \A dir \in OutDirs : outFiles[<<dir, calls[r].base>>].run # r
  /\ calls' = [calls EXCEPT ![r] = Settle([calls[r] EXCEPT !.state = "closed"], "rejected", 0)]
  /\ UNCHANGED <<outFiles, extractorRest>>

InitExtractor ==
  /\ calls = [r \in Runs |-> Call("idle", "", "pending", 0)]
  /\ outFiles = [f \in OutDirs \X Basenames |-> noFile]
  /\ ParserIdle /\ ClassifierIdle /\ ReportsIdle /\ ProcessIdle
  /\ RecommendationsIdle /\ ImageIdle /\ SheetIdle

NextExtractor ==
  \E r \in Runs :
    ExtractorCall(r) \/ ExtractorWrites(r) \/ ExtractorClose(r) \/ ExtractorError(r)

SpecExtractor == InitExtractor /\ [][NextExtractor]_vars

(***************************************************************************)
(* runRecommendations, utils/runRecommendations.js lines 6-62.  recChild   *)
(* is the state of the child process, recStdout what its stdout delivered  *)
(* so far, recTmpFile whether the temporary input file is on disk,         *)
(* recPromise the promise the call returned, recCode the exit code the     *)
(* 'close' event carried (-1 before it).                                   *)
(***************************************************************************)
MaxChunks == 2

\* the pieces the script's stdout arrives in
Chunks ==
  { <<"{", "}">>, <<"n", "u", "l", "l">>, <<"[">>, <<"]">>, <<"{">>, <<"x">> }

Promise(settled, v) == [settled |-> settled, value |-> v]
pending == Promise("pending", "")

\* JSON.parse on the texts the chunks can form: the kind of the value, or
\* "SyntaxError"
JSONparse(cs) ==
  IF cs = <<"{", "}">> THEN "object"
  ELSE IF cs = <<"n", "u", "l", "l">> THEN "null"
  ELSE IF cs \in { <<"[", "]">>, <<"[", "{", "}", "]">>,
                   <<"[", "n", "u", "l", "l", "]">>, <<"[", "[", "]", "]">> }
  THEN "array"
  ELSE "SyntaxError"

\* stdout.match(/\{[\s\S]*\}/): from the first "{" to the last "}" after it
MatchBraces(cs) ==
  LET opens == {i \in 1..Len(cs) : cs[i] = "{"}
      closes == {j \in 1..Len(cs) : cs[j] = "}"}
  IN  IF opens = {} THEN [matched |-> FALSE, text |-> <<>>]
      ELSE LET i == CHOOSE i \in opens : \A k \in opens : i <= k
               after == {j \in closes : j > i}
           IN  IF after = {} THEN [matched |-> FALSE, text |-> <<>>]
               ELSE LET j == CHOOSE j \in after : \A k \in after : k <= j
                    IN  [matched |-> TRUE, text |-> SubSeq(cs, i, j)]

\* lines 49-51: jsonMatch ? JSON.parse(jsonMatch[0]) : JSON.parse(stdout)
ParseOutput(cs) ==
  LET jsonMatch == MatchBraces(cs)
  IN  IF jsonMatch.matched THEN JSONparse(jsonMatch.text) ELSE JSONparse(cs)

\* resolve and reject settle the promise once
SettlePromise(p, how, v) == IF p.settled = "pending" THEN Promise(how, v) ELSE p

\* lines 7-30: the temporary file is written and the child spawned
RecCall ==
  /\ recChild = "none"
  /\ recPromise = pending
  /\ \E written \in BOOLEAN :
       IF written
       THEN /\ recTmpFile' = TRUE
            /\ recChild' = "running"
            /\ UNCHANGED recPromise
       ELSE /\ recPromise' = SettlePromise(recPromise, "rejected", "writeFileSync")
            /\ UNCHANGED <<recTmpFile, recChild>>
  /\ UNCHANGED <<recStdout, recCode, recRest>>

\* line 35: child.stdout.on("data")
RecData ==
  /\ recChild \in {"running", "errored"}
  /\ Len(recStdout) < MaxChunks
  /\ \E d \in Chunks : recStdout' = Append(recStdout, d)
  /\ UNCHANGED <<recChild, recTmpFile, recPromise, recCode, recRest>>

\* lines 38-41: the 'error' event
RecError ==
  /\ recChild = "running"
  /\ recTmpFile' = FALSE
  /\ recPromise' = SettlePromise(recPromise, "rejected", "error")
  /\ recChild' = "errored"
  /\ UNCHANGED <<recStdout, recCode, recRest>>

RECURSIVE Concat(_)
Concat(ds) == IF ds = <<>> THEN <<>> ELSE Head(ds) \o Concat(Tail(ds))

\* lines 43-60: the 'close' event
RecClose ==
  /\ recChild \in {"running", "errored"}
  /\ \E code \in {0, 1} :
       /\ recCode' = code
       /\ recPromise' =
            IF code # 0 THEN SettlePromise(recPromise, "rejected", "exit")
            ELSE LET parsed == ParseOutput(Concat(recStdout))
                 IN  IF parsed = "SyntaxError"
                     THEN SettlePromise(recPromise, "rejected", "SyntaxError")
                     ELSE SettlePromise(recPromise, "resolved", parsed)
  /\ recTmpFile' = FALSE
  /\ recChild' = "closed"
  /\ UNCHANGED <<recStdout, recRest>>

InitRecommendations ==
  /\ recChild = "none" /\ recStdout = <<>> /\ recTmpFile = FALSE
  /\ recPromise = pending /\ recCode = -1
  /\ ParserIdle /\ ClassifierIdle /\ ReportsIdle /\ ProcessIdle /\ ExtractorIdle
  /\ ImageIdle /\ SheetIdle

NextRecommendations == RecCall \/ RecData \/ RecError \/ RecClose

SpecRecommendations == InitRecommendations /\ [][NextRecommendations]_vars

(***************************************************************************)
(* POST /api/uploadimage, routes/uploadimage.js lines 33-171.  reportsDb   *)
(* is the Report collection, imgFile the name multer gave the upload       *)
(* (empty when the request carried no file), pipelineRaw the stdout of the *)
(* pipeline script, imgResponse the response.                              *)
(***************************************************************************)
\* the stdout of a script: up to MaxChunks pieces
Stdouts == UNION {[1..n -> Chunks] : n \in 0..MaxChunks}

\* lines 62-74 and 98-106: JSON.parse of the whole text, then of its '{...}'
\* span, null when neither parses
ParseWithFallback(cs) ==
  IF JSONparse(cs) # "SyntaxError" THEN JSONparse(cs)
  ELSE LET m == MatchBraces(cs)
       IN  IF m.matched /\ JSONparse(m.text) # "SyntaxError" THEN JSONparse(m.text)
           ELSE "null"

\* the document Report.create persists, lines 132-143
ImageReport(id, name) == [_id |-> id, filename |-> name, processed |-> TRUE]
nullReport == ImageReport(0, <<>>)

\* a catch that leaves savedReport as create had it
SavedReportOf_KeepOnFailure(created, rep) == rep

\* lines 130-148: savedReport is the created document, null when create rejects
SavedReportOf(created, rep) == IF created THEN rep ELSE nullReport

Failure(st, m) == [status |-> st, ok |-> FALSE, msg |-> m]

\* lines 154-164
Payload(name, pipeline, recs, saved) ==
  LET payload == [status |-> 200, ok |-> TRUE, file |-> name,
                  pipeline |-> pipeline, recommendations |-> recs]
  IN  IF saved # nullReport
      THEN payload @@ [report |-> saved, reportId |-> saved._id]
      ELSE payload

\* lines 34-131: the request up to the call of Report.create
ImagePost ==
  /\ pcImg = "idle"
  /\ \E hasFile \in BOOLEAN, now \in Stamps, rnd \in Randoms, ext \in Extnames,
        pipelineProc \in SpawnResults, data \in Stdouts, recOut \in {"", "object"} :
       LET raw == IF pipelineProc.error THEN <<>> ELSE Concat(data)
           json == ParseWithFallback(raw)
       IN  /\ imgFile' = (IF hasFile THEN UploadImageName(now, rnd, ext) ELSE <<>>)
           /\ IF ~hasFile
              THEN /\ imgResponse' = Failure(400, "No file uploaded")
                   /\ pcImg' = "responded"
                   /\ UNCHANGED <<pipelineRaw, pipelineJson, recJson>>
              ELSE /\ pipelineRaw' = raw
                   /\ IF pipelineProc.error
                      THEN /\ imgResponse' = Failure(500, "spawn")
                           /\ pcImg' = "responded"
                           /\ UNCHANGED <<pipelineJson, recJson>>
                      ELSE IF pipelineProc.status # 0
                      THEN /\ imgResponse' = Failure(500, "Pipeline failed")
                           /\ pcImg' = "responded"
                           /\ UNCHANGED <<pipelineJson, recJson>>
                      ELSE /\ pipelineJson' = json
                           /\ IF json = "null"
                              THEN /\ imgResponse' =
                                        Failure(500, "Could not parse pipeline output")
                                   /\ pcImg' = "responded"
                                   /\ UNCHANGED recJson
                              ELSE /\ recJson' = (IF recOut = "" THEN "fallback" ELSE recOut)
                                   /\ pcImg' = "creating"
                                   /\ UNCHANGED imgResponse
  /\ UNCHANGED <<reportsDb, savedReport, imageRest>>

\* lines 132-166: Report.create settles and the response is sent
ImageCreated ==
  /\ pcImg = "creating"
  /\ \E created \in BOOLEAN :
       LET rep == ImageReport(Cardinality(reportsDb) + 1, imgFile)
       IN  /\ reportsDb' = (IF created THEN reportsDb \cup {rep} ELSE reportsDb)
           /\ savedReport' = SavedReportOf(created, rep)
           /\ imgResponse' = Payload(imgFile, pipelineJson, recJson, savedReport')
  /\ pcImg' = "responded"
  /\ UNCHANGED <<imgFile, pipelineRaw, pipelineJson, recJson, imageRest>>

InitImage ==
  /\ pcImg = "idle" /\ imgFile = <<>> /\ pipelineRaw = <<>> /\ pipelineJson = "null"
  /\ recJson = "null" /\ savedReport = nullReport /\ reportsDb = {}
  /\ imgResponse = Failure(0, "")
  /\ ParserIdle /\ ClassifierIdle /\ ReportsIdle /\ ProcessIdle /\ ExtractorIdle
  /\ RecommendationsIdle /\ SheetIdle

NextImage == ImagePost \/ ImageCreated

SpecImage == InitImage /\ [][NextImage]_vars

(***************************************************************************)
(* UploadSheet, components/UploadSheet.tsx lines 58-108 and 182-226.       *)
(* loading is the component's state, onCloseCalls the calls of onClose     *)
(* since uploadAndProcess was invoked, sent the requests it issued,        *)
(* uploadResp the answer of the upload, presses the presses of the         *)
(* backdrop, the swipes and the presses of Cancel so far.                  *)
(***************************************************************************)
MaxPresses == 2

\* a response body's reportId, report._id and id; "undefined" where absent
Body(rid, r_id, id) == [reportId |-> rid, report_id |-> r_id, id |-> id]
Bodies ==
  {Body(a, b, c) : a \in {"undefined", "", "r1"}, b \in {"undefined", "", "r2"},
                   c \in {"undefined", "r3"}}
ApiResponse(thrown, ok, body) == [thrown |-> thrown, ok |-> ok, body |-> body]
noBody == Body("undefined", "undefined", "undefined")
noAnswer == ApiResponse(FALSE, FALSE, noBody)
\* what uploadFile, uploadImageFile and apiFetch end with
ApiResponses ==
  {ApiResponse(FALSE, ok, b) : ok \in BOOLEAN, b \in Bodies}
    \cup {ApiResponse(TRUE, FALSE, noBody)}

\* lines 86-87: resp.body?.reportId ?? resp.body?.report?._id ?? resp.body?.id ?? null
ReportIdOf(body) ==
  IF body.reportId # "undefined" THEN body.reportId
  ELSE IF body.report_id # "undefined" THEN body.report_id
  ELSE IF body.id # "undefined" THEN body.id
  ELSE "null"

\* a press handler that onCloseCalls whatever loading is
PressCloses_Always(isLoading) == TRUE

\* lines 185, 186, 221: !loading && onClose()
PressCloses(isLoading) == ~isLoading

\* lines 64-81: the invocation up to its first await; with an empty URI the
\* function returns through the finally block at once
SheetInvoke ==
  /\ pcSheet \in {"open", "finished"}
  /\ ~loading
  /\ uploadResp' = noAnswer
  /\ \E localUri \in {"", "file:///r.pdf"}, fileType \in {"pdf", "image"} :
       IF localUri = ""
       THEN /\ loading' = FALSE
            /\ onCloseCalls' = 1
            /\ sent' = <<>>
            /\ pcSheet' = "finished"
       ELSE /\ loading' = TRUE
            /\ onCloseCalls' = 0
            /\ sent' = << IF fileType = "image" THEN "/api/uploadimage" ELSE "/api/upload" >>
            /\ pcSheet' = "uploading"
  /\ UNCHANGED <<presses, sheetRest>>

\* lines 73-92 and 101-107: the upload answers or throws
SheetUploaded ==
  /\ pcSheet = "uploading"
  /\ \E resp \in ApiResponses :
       /\ uploadResp' = resp
       /\ IF sent[1] = "/api/upload" /\ ~resp.thrown /\ resp.ok
             /\ ReportIdOf(resp.body) \notin {"null", ""}
          THEN /\ sent' = Append(sent, "/api/process/" \o ReportIdOf(resp.body))
               /\ pcSheet' = "processing"
               /\ UNCHANGED <<loading, onCloseCalls>>
          ELSE /\ loading' = FALSE
               /\ onCloseCalls' = onCloseCalls + 1
               /\ pcSheet' = "finished"
               /\ UNCHANGED sent
  /\ UNCHANGED <<presses, sheetRest>>

\* lines 92-107: the processing request answers or throws
SheetProcessed ==
  /\ pcSheet = "processing"
  /\ \E proc \in {ApiResponse(FALSE, TRUE, noBody), ApiResponse(FALSE, FALSE, noBody),
                  ApiResponse(TRUE, FALSE, noBody)} :
       /\ loading' = FALSE
       /\ onCloseCalls' = onCloseCalls + 1
       /\ pcSheet' = "finished"
  /\ UNCHANGED <<sent, uploadResp, presses, sheetRest>>

\* lines 185, 186, 221: the backdrop pressed, the sheet swiped, Cancel pressed
SheetPress ==
  /\ pcSheet # "off"
  /\ presses < MaxPresses
  /\ presses' = presses + 1
  /\ onCloseCalls' = (IF PressCloses(loading) THEN onCloseCalls + 1 ELSE onCloseCalls)
  /\ UNCHANGED <<pcSheet, loading, sent, uploadResp, sheetRest>>

InitSheet ==
  /\ pcSheet = "open" /\ loading = FALSE /\ onCloseCalls = 0 /\ presses = 0
  /\ sent = <<>> /\ uploadResp = noAnswer
  /\ ParserIdle /\ ClassifierIdle /\ ReportsIdle /\ RoutesIdle

NextSheet == SheetInvoke \/ SheetUploaded \/ SheetProcessed \/ SheetPress

SpecSheet == InitSheet /\ [][NextSheet]_vars

(***************************************************************************)
(* Properties of the parser.  The helpers below state what a line holds    *)
(* in terms of its characters alone.                                       *)
(***************************************************************************)
DecimalDigits == {"0", "1", "2", "3", "4", "5", "6", "7", "8", "9"}

Returned == pcP = "returned"

\* the argument is null, undefined or the empty string
NoText == text.kind \in {"null", "undefined"} \/ Len(text.chars) = 0

\* w occurs in l, letters compared without case
ContainsNoCase(l, w) ==
  \E i \in 1..(Len(l) - Len(w) + 1) :
    \A k \in 1..Len(w) : LowerChar(l[i + k - 1]) = LowerChar(w[k])

\* line l names the registry entry with index ti
LineNames(l, ti) ==
  \E n \in 1..Len(tests[ti].names) : ContainsNoCase(l, tests[ti].names[n])

KeyIndex(key) == CHOOSE ti \in 1..Len(tests) : tests[ti].key = key

HasDigit(l) == \E i \in 1..Len(l) : l[i] \in DecimalDigits

\* w is one integer or decimal numeral: digits, or digits "." digits
IsNumeral(w) ==
  /\ w # <<>>
  /\ \A i \in 1..Len(w) : w[i] \in DecimalDigits \cup {"."}
  /\ Cardinality({i \in 1..Len(w) : w[i] = "."}) <= 1
  /\ w[1] # "." /\ w[Len(w)] # "."

\* the first numeric substring of l: it starts at the first digit and is the
\* longest numeral that starts there
FirstNumeral(l) ==
  LET i == CHOOSE p \in 1..Len(l) : l[p] \in DecimalDigits /\ \A q \in 1..(p - 1) : l[q] \notin DecimalDigits
      j == CHOOSE e \in i..Len(l) :
             /\ IsNumeral(SubSeq(l, i, e))
             /\ \A e2 \in (e + 1)..Len(l) : ~IsNumeral(SubSeq(l, i, e2))
  IN  SubSeq(l, i, j)

\* the lines of the text being parsed (kept by the call in lines)
FirstLineNaming(ti) ==
  CHOOSE i \in 1..Len(lines) : LineNames(lines[i], ti) /\ \A j \in 1..(i - 1) : ~LineNames(lines[j], ti)

\* C1: the output holds at most one record per test key, a record for every key
\* some line names, and the record of a key is the one made from the first
\* line that names it.
InvDedupFirstLine ==
  (Returned /\ ~NoText) =>
    /\ \A i, j \in 1..Len(out) : out[i].test = out[j].test => i = j
    /\ \A i \in 1..Len(out) :
         LET ti == KeyIndex(out[i].test)
         IN  /\ \E k \in 1..Len(lines) : LineNames(lines[k], ti)
             /\ out[i] = MakeRecord(tests[ti], lines[FirstLineNaming(ti)])
    /\ \A ti \in 1..Len(tests) :
         (\E k \in 1..Len(lines) : LineNames(lines[k], ti))
           => \E i \in 1..Len(out) : out[i].test = tests[ti].key

\* two lines name the same key with different content, the first one was kept
WitDedupFirstLine ==
  /\ Returned
  /\ \E a, b \in 1..Len(lines) :
       /\ a < b
       /\ lines[a] # lines[b]
       /\ LineNames(lines[a], 1) /\ LineNames(lines[b], 1)
       /\ \A c \in 1..(a - 1) : ~LineNames(lines[c], 1)
       /\ \E i \in 1..Len(out) : out[i].test = "Hemoglobin" /\ out[i].line = lines[a]
  /\ Len(found) > Len(out)

\* no registry name occurs anywhere in the text
NoRegistryName(t) ==
  /\ t.kind = "string"
  /\ LET l == ReplaceNBSP(t.chars)
     IN  \A ti \in 1..Len(tests) : ~LineNames(l, ti)

\* C5: for null, undefined, the empty string and a text that names no registry
\* test, the call does not throw and returns the empty sequence.  Stated from
\* the outcome: a call that threw, or returned a record, had a text that is a
\* non-empty string naming a registry test.
InvEmptyResult ==
  (raised \/ pcP = "threw" \/ (Returned /\ out # <<>>))
    => ~(NoText \/ NoRegistryName(text))

WitEmptyResult ==
  /\ Returned /\ out = <<>>
  /\ text.kind = "string" /\ Len(text.chars) > 2 /\ HasDigit(text.chars)
  /\ NoRegistryName(text)

\* C6: the value of every output record is the first numeric substring of the
\* record's line, and null exactly when the line holds no digit.
InvValueFirstNumber ==
  Returned =>
    \A i \in 1..Len(out) :
      IF HasDigit(out[i].line)
      THEN out[i].value = ParseFloat(FirstNumeral(out[i].line))
      ELSE out[i].value = null

\* a record whose test name follows two numbers on its line
WitValueFirstNumber ==
  /\ Returned
  /\ \E i \in 1..Len(out) :
       /\ out[i].value.kind = "number"
       /\ Len(Nums(out[i].line)) >= 2
       /\ Nums(out[i].line)[1] # Nums(out[i].line)[2]
       /\ out[i].line[1] \in DecimalDigits

\* the leftmost match of number, optional white space, hyphen or en-dash,
\* optional white space, number in l, found by trying every substring: the match
\* starts as far left as possible, then its first number is as long as
\* possible, then its second
RangeParts(l) ==
  LET digitAt == {p \in 1..Len(l) : l[p] \in DecimalDigits}
      numerals == {q \in digitAt \X digitAt : q[1] <= q[2] /\ IsNumeral(SubSeq(l, q[1], q[2]))}
      Gap(a, b) ==
        \E d \in a..b :
          /\ l[d] \in {"-", "ENDASH"}
          /\ \A q \in (a..b) \ {d} : l[q] \in {" ", "TAB", "CR"}
      all == {q \in numerals \X numerals : q[1][2] + 1 < q[2][1] /\ Gap(q[1][2] + 1, q[2][1] - 1)}
  IN  IF all = {} THEN <<>>
      ELSE LET i == CHOOSE a \in {q[1][1] : q \in all} : \A q \in all : a <= q[1][1]
               atI == {q \in all : q[1][1] = i}
               e == CHOOSE a \in {q[1][2] : q \in atI} : \A q \in atI : a >= q[1][2]
               atE == {q \in atI : q[1][2] = e}
               k == CHOOSE a \in {q[2][1] : q \in atE} : TRUE
               m == CHOOSE a \in {q[2][2] : q \in atE} : \A q \in atE : a >= q[2][2]
           IN  <<SubSeq(l, i, e), SubSeq(l, k, m)>>

\* every place of l where a number token, a dash and a number token follow
\* each other, as pairs of values
RangePairs(l) ==
  {<<RangeAt(l, i).lower, RangeAt(l, i).upper>> :
     i \in {p \in 1..Len(l) : /\ RangeAt(l, p).ok
                              /\ (p = 1 \/ l[p - 1] \notin DecimalDigits \cup {"."})}}

\* C7 as stated: a line that names a test and holds no number gives an output
\* record for that test with value, ref_lower and ref_upper null.
ClaimNoNumberRecord ==
  Returned =>
    \A k \in 1..Len(lines) : \A ti \in 1..Len(tests) :
      (LineNames(lines[k], ti) /\ ~HasDigit(lines[k]))
        => \E i \in 1..Len(out) :
             /\ out[i].test = tests[ti].key
             /\ out[i].value = null /\ out[i].ref_lower = null /\ out[i].ref_upper = null

\* C7, amended: such a line gives an output record made from that very line,
\* with value, ref_lower and ref_upper null, unless an earlier line names the
\* same test.
InvNoNumberRecord ==
  Returned =>
    \A k \in 1..Len(lines) :
      ~HasDigit(lines[k]) =>
        \A ti \in 1..Len(tests) :
          (LineNames(lines[k], ti) /\ \A j \in 1..(k - 1) : ~LineNames(lines[j], ti))
            => \E i \in 1..Len(out) :
                 /\ out[i].test = tests[ti].key
                 /\ out[i].line = lines[k]
                 /\ out[i].value = null /\ out[i].ref_lower = null
                 /\ out[i].ref_upper = null

WitNoNumberRecord ==
  /\ Returned
  /\ \E i \in 1..Len(out) :
       /\ out[i].test = "Hemoglobin" /\ ~HasDigit(out[i].line)
       /\ out[i].value = null /\ out[i].ref_lower = null /\ out[i].ref_upper = null
  /\ \E k \in 1..Len(lines) : HasDigit(lines[k])

\* C8 as stated: whenever a line holds a range a - b with a < b, the records
\* made from the line carry a and b; a line holding no such range gives null
\* bounds.
ClaimInlineRange ==
  Returned =>
    \A i \in 1..Len(found) :
      LET pairs == {q \in RangePairs(found[i].line) : NumLess(q[1], q[2])}
      IN  /\ \A q \in pairs : found[i].ref_lower = q[1] /\ found[i].ref_upper = q[2]
          /\ pairs = {} => found[i].ref_lower = null /\ found[i].ref_upper = null

\* C8, amended: the bounds of a record are the two numbers of the leftmost
\* match of the range pattern in its line, whatever their order, and null when
\* the pattern matches nowhere in the line.
InvInlineRange ==
  Returned =>
    \A i \in 1..Len(found) :
      LET parts == RangeParts(found[i].line)
      IN  IF parts = <<>>
          THEN found[i].ref_lower = null /\ found[i].ref_upper = null
          ELSE /\ found[i].ref_lower = ParseFloat(parts[1])
               /\ found[i].ref_upper = ParseFloat(parts[2])

\* a line with two ranges, the first of them with its bounds in ascending order
WitInlineRange ==
  /\ Returned
  /\ \E i \in 1..Len(found) :
       /\ Cardinality(RangePairs(found[i].line)) >= 2
       /\ found[i].ref_lower.kind = "number"
       /\ NumLess(found[i].ref_lower, found[i].ref_upper)

\* C9: a second call on the same text returns what the first call returned.
InvSecondCallSame ==
  (Returned /\ prevOut # NoCall) => out = prevOut

WitSecondCallSame ==
  /\ Returned /\ prevOut # NoCall
  /\ Len(out) >= 2 /\ Len(found) > Len(out)

\* C10 as stated: the result for the text "Fasting Glucose 105 mg/dL (70-99)" is
\* the one record {Fasting Glucose, 105, 70, 99}.
ClaimGlucoseExample ==
  (Returned /\ text = Str(GlucoseText)) =>
    /\ Len(out) = 1
    /\ out[1].test = "Fasting Glucose"
    /\ out[1].value = Whole(105)
    /\ out[1].ref_lower = Whole(70) /\ out[1].ref_upper = Whole(99)

(***************************************************************************)
(* Properties of the classifier                                            *)
(***************************************************************************)
Classified == pcC = "classified"

\* the test name holds "hemoglobin", letters compared without case
NamesHemoglobin(r) == ContainsNoCase(r.test, <<"h", "e", "m", "o", "g", "l", "o", "b", "i", "n">>)

\* v < t/10 and v > t/10 for a number v
BelowTenths(v, t) == v.n * 10 < t * v.d
AboveTenths(v, t) == v.n * 10 > t * v.d

PredictionOf(r) == IF "prediction" \in DOMAIN r THEN r.prediction ELSE "(absent)"
Overridden(r) == "rule_overridden" \in DOMAIN r /\ r.rule_overridden = TRUE

\* C2: a hemoglobin record with a numeric value is low below 12.0 (sex F) or 13.0
\* (sex M or unknown), high above 16.0 (F) or 17.5 (M or unknown), normal
\* otherwise, the bounds included, and its override flag is true.
InvHemoglobinBounds ==
  Classified =>
    \A i \in 1..Len(finalPreds) :
      LET r == finalPreds[i]
          lowerTenths == IF sex = "F" THEN 120 ELSE 130
          upperTenths == IF sex = "F" THEN 160 ELSE 175
      IN  (NamesHemoglobin(r) /\ r.value.kind = "number") =>
            /\ Overridden(r)
            /\ PredictionOf(r) = IF BelowTenths(r.value, lowerTenths) THEN "low"
                                 ELSE IF AboveTenths(r.value, upperTenths) THEN "high"
                                 ELSE "normal"

\* sex F, value 11.0: low, overridden; and a value on a bound: normal
WitHemoglobinBounds ==
  /\ Classified /\ sex = "F"
  /\ \E i \in 1..Len(finalPreds) :
       /\ NamesHemoglobin(finalPreds[i]) /\ finalPreds[i].value = Whole(11)
       /\ PredictionOf(finalPreds[i]) = "low" /\ Overridden(finalPreds[i])
  /\ \E i \in 1..Len(finalPreds) :
       /\ NamesHemoglobin(finalPreds[i]) /\ finalPreds[i].value = Whole(16)
       /\ PredictionOf(finalPreds[i]) = "normal"

\* C3 as stated: a record whose value is null carries no classification after
\* the classifier has run.
ClaimNullUnclassified ==
  Classified =>
    \A i \in 1..Len(finalPreds) :
      finalPreds[i].value = null
        => PredictionOf(finalPreds[i]) \notin {"low", "normal", "high"}

\* C4: hemoglobin records of equal value get equal predictions and a true
\* override flag whatever their inline ranges are, and the same outcome under
\* every reference table and every prediction the records carried before.
InvOverridePrecedence ==
  Classified =>
    \A i \in 1..Len(finalPreds) :
      NamesHemoglobin(finalPreds[i]) =>
        /\ Overridden(finalPreds[i])
        /\ \A j \in (i + 1)..Len(finalPreds) :
             (finalPreds[j].value = finalPreds[i].value /\ NamesHemoglobin(finalPreds[j]))
               => PredictionOf(finalPreds[j]) = PredictionOf(finalPreds[i])
        /\ \A before \in {PredictOne(items[i], sex, tbl) : tbl \in Tables}
                            \cup {WithPrediction(items[i], prior) :
                                    prior \in {"low", "normal", "high"}} :
             HemoglobinRuleOne(before, items) = finalPreds[i]

\* two hemoglobin records of one value, one with the inline range 13-17 that
\* made the prediction step call it high, one left unclassified by it
WitOverridePrecedence ==
  /\ Classified
  /\ \E i, j \in 1..Len(finalPreds) :
       /\ NamesHemoglobin(finalPreds[i]) /\ NamesHemoglobin(finalPreds[j])
       /\ finalPreds[i].value = finalPreds[j].value
       /\ finalPreds[i].ref_lower = Whole(13) /\ finalPreds[j].ref_lower = null
       /\ PredictionOf(PredictOne(items[i], sex, table)) = "high"
       /\ PredictionOf(PredictOne(items[j], sex, table)) = "(absent)"
       /\ PredictionOf(finalPreds[i]) = "normal"

\* C11 as stated: the step that applies the hemoglobin rule leaves every record
\* it is given as it was: the extracted values and the prediction candidates
\* have the same fields and values afterwards.
ClaimInputsUntouched ==
  [][pcC = "predicted" => (items' = items /\ predictions' = predictions)]_vars

\* C12 as stated: every record of the classifier's output carries a boolean
\* rule_overridden, true exactly when the test name holds "hemoglobin" (letters
\* compared without case) and false for every other record.
ClaimOverrideFlagBoolean ==
  Classified =>
    \A i \in 1..Len(finalPreds) :
      /\ "rule_overridden" \in DOMAIN finalPreds[i]
      /\ finalPreds[i].rule_overridden \in BOOLEAN
      /\ finalPreds[i].rule_overridden = NamesHemoglobin(finalPreds[i])

\* C13: the step that applies the hemoglobin rule returns as many records as it
\* was given, in the same order; a record whose name does not hold "hemoglobin"
\* comes back with every field, the prediction included, as it was, and a
\* hemoglobin record keeps its test name and its value.
InvRuleKeepsRecords ==
  [][pcC = "predicted" =>
       /\ Len(finalPreds') = Len(predictions)
       /\ \A i \in 1..Len(predictions) :
            IF NamesHemoglobin(predictions[i])
            THEN /\ finalPreds'[i].test = predictions[i].test
                 /\ finalPreds'[i].value = predictions[i].value
            ELSE finalPreds'[i] = predictions[i]]_vars

\* a glucose record classified high ahead of a hemoglobin record that the rule
\* reclassified
WitRuleKeepsRecords ==
  /\ Classified /\ Len(finalPreds) = 2
  /\ ~NamesHemoglobin(finalPreds[1]) /\ PredictionOf(finalPreds[1]) = "high"
  /\ NamesHemoglobin(finalPreds[2]) /\ Overridden(finalPreds[2])
  /\ finalPreds[2].value.kind = "number"
  /\ PredictionOf(finalPreds[2]) # PredictionOf(PredictOne(items[2], sex, table))

\* the table rows for the record's test name and the report's sex (M when the
\* sex is not known)
RowsFor(r) ==
  {w \in table : w.test_name = r.test /\ w.sex = (IF sex = "F" THEN "F" ELSE "M")}

HasInlineRange(r) == r.ref_lower # null /\ r.ref_upper # null

\* the three-way comparison of a numeric value with the bounds lo and hi
ThreeWay(v, lo, hi) ==
  IF v.n * lo.d < lo.n * v.d THEN "low"
  ELSE IF v.n * hi.d > hi.n * v.d THEN "high"
  ELSE "normal"

InvNoBoundsUnclassified ==
  Classified =>
    \A i \in 1..Len(finalPreds) :
      LET r == finalPreds[i]
      IN  (~NamesHemoglobin(r) /\ ~HasInlineRange(r) /\ RowsFor(r) = {})
            => PredictionOf(r) = "(absent)"

\* a glucose record with a number and no bounds anywhere, next to one that has
\* an inline range and is classified
WitNoBoundsUnclassified ==
  /\ Classified /\ table = {}
  /\ \E i, j \in 1..Len(finalPreds) :
       /\ ~NamesHemoglobin(finalPreds[i]) /\ ~HasInlineRange(finalPreds[i])
       /\ finalPreds[i].value = Whole(105)
       /\ PredictionOf(finalPreds[i]) = "(absent)"
       /\ ~NamesHemoglobin(finalPreds[j]) /\ HasInlineRange(finalPreds[j])
       /\ PredictionOf(finalPreds[j]) = "high"

\* C16: for a record classified from a table row, a value beyond a bound whose
\* flag is off is normal, and a value beyond a bound whose flag is on is low
\* (below the lower bound) or high (above the upper bound) whatever the flag of
\* the other direction is.
InvFlagOffNormal ==
  Classified =>
    \A i \in 1..Len(finalPreds) :
      LET r == finalPreds[i]
      IN  (~NamesHemoglobin(r) /\ r.value # null /\ ~HasInlineRange(r)) =>
            \A w \in RowsFor(r) :
              LET way == ThreeWay(r.value, w.lower_ref, w.upper_ref)
              IN  /\ (way = "low" /\ w.flag_low = 0) => PredictionOf(r) = "normal"
                  /\ (way = "high" /\ w.flag_high = 0) => PredictionOf(r) = "normal"
                  /\ (way = "low" /\ w.flag_low = 1) => PredictionOf(r) = "low"
                  /\ (way = "high" /\ w.flag_high = 1) => PredictionOf(r) = "high"

\* the row for sex M has the low flag off: 65 is normal and 105 is high
WitFlagOffNormal ==
  /\ Classified /\ sex = "M" /\ table = WhoTableFlagsOff
  /\ \E i, j \in 1..Len(finalPreds) :
       /\ ~NamesHemoglobin(finalPreds[i]) /\ ~HasInlineRange(finalPreds[i])
       /\ finalPreds[i].value = Whole(65) /\ PredictionOf(finalPreds[i]) = "normal"
       /\ ~NamesHemoglobin(finalPreds[j]) /\ ~HasInlineRange(finalPreds[j])
       /\ finalPreds[j].value = Whole(105) /\ PredictionOf(finalPreds[j]) = "high"

(***************************************************************************)
(* Further properties of the parser                                        *)
(***************************************************************************)
\* the value the first numeric substring of l stands for, null without a digit
FirstNumber(l) == IF HasDigit(l) THEN ParseFloat(FirstNumeral(l)) ELSE null

\* C17: for every line and every registry entry one of whose names occurs in
\* the line, letters compared without case, the output holds a record for the
\* entry's key made from that line, unless an earlier line names the entry; its
\* value is the first number of the line, so the records one line gives for
\* several keys share their value.
InvEntriesIndependent ==
  (Returned /\ ~NoText) =>
    \A k \in 1..Len(lines) : \A ti \in 1..Len(tests) :
      (LineNames(lines[k], ti) /\ \A j \in 1..(k - 1) : ~LineNames(lines[j], ti))
        => \E i \in 1..Len(out) :
             /\ out[i].test = tests[ti].key
             /\ out[i].line = lines[k]
             /\ out[i].value = FirstNumber(lines[k])

\* one line gave records for two keys with one numeric value, another line gave
\* a record as well
WitEntriesIndependent ==
  /\ Returned
  /\ \E i, j, k \in 1..Len(out) :
       /\ out[i].test # out[j].test /\ out[i].line = out[j].line
       /\ out[i].value.kind = "number" /\ out[j].value = out[i].value
       /\ out[k].line # out[i].line

\* C18: the output is ordered by the index of the first line that names a
\* record's key, and records whose keys are first named on the same line are
\* ordered by the position of their entries in the registry.
InvFirstSeenOrder ==
  (Returned /\ ~NoText) =>
    \A i, j \in 1..Len(out) :
      i < j =>
        LET a == FirstLineNaming(KeyIndex(out[i].test))
            b == FirstLineNaming(KeyIndex(out[j].test))
        IN  a < b \/ (a = b /\ KeyIndex(out[i].test) < KeyIndex(out[j].test))

\* the keys of a later line stand earlier in the registry than the two keys of
\* an earlier line
WitFirstSeenOrder ==
  /\ Returned
  /\ \E i, j, k \in 1..Len(out) :
       /\ i < j /\ j < k
       /\ out[i].line = out[j].line /\ out[k].line # out[j].line
       /\ KeyIndex(out[k].test) < KeyIndex(out[i].test)

\* every newline of s replaced by carriage return and newline
RECURSIVE WithCRLF(_)
WithCRLF(s) ==
  IF s = <<>> THEN <<>>
  ELSE (IF s[1] = "LF" THEN <<"CR", "LF">> ELSE <<s[1]>>) \o WithCRLF(Tail(s))

\* every ordinary space of s replaced by a non-breaking space
WithNBSP(s) == [i \in 1..Len(s) |-> IF s[i] = " " THEN "NBSP" ELSE s[i]]

\* white space put before and after every line of s and a blank line put
\* between the lines
RECURSIVE PadLF(_)
PadLF(s) ==
  IF s = <<>> THEN <<>>
  ELSE (IF s[1] = "LF" THEN <<" ", "LF", "TAB", "LF", "NBSP">> ELSE <<s[1]>>)
         \o PadLF(Tail(s))

Padded(s) == <<"LF", "TAB">> \o PadLF(s) \o <<" ", "LF">>

\* C19: the parser returns for the text with every newline replaced by carriage
\* return and newline, for the text with every space replaced by a
\* non-breaking space, and for the text with blank lines added and white
\* space put around its lines, what it returns for the text itself: the same
\* keys, values, ranges and line texts.  Stated at the return of the first call
\* on the text.
\* The three texts are parsed one by one unless all of them split into the
\* lines the call made of the text itself, in which case one evaluation of
\* lines 26-64 on those lines stands for the three.
InvNormalizationInvariant ==
  (Returned /\ prevOut = NoCall /\ text.kind = "string") =>
    LET changed == {WithCRLF(text.chars), WithNBSP(text.chars), Padded(text.chars)}
    IN  IF \A cs \in changed : SplitLines(Normalize(cs)) = lines
        THEN ParseLines(lines) = out
        ELSE \A cs \in changed : ParseString(cs) = out

\* a text of several lines with a bare newline and a space in a line that
\* gave a record
WitNormalizationInvariant ==
  /\ Returned /\ text.kind = "string"
  /\ WithCRLF(text.chars) # text.chars
  /\ Len(out) >= 2
  /\ \E i \in 1..Len(out) : \E p \in 1..Len(out[i].line) : out[i].line[p] = " "
  /\ \E i \in 1..Len(out) : out[i].ref_lower.kind = "number"

(***************************************************************************)
(* Properties of the reports route                                         *)
(***************************************************************************)
\* path r is the directory root or lies below it
WithinRoot(r, root) ==
  \/ r = root
  \/ root = <<"/">>
  \/ /\ Len(r) > Len(root) + 1
     /\ SubSeq(r, 1, Len(root)) = root
     /\ r[Len(root) + 1] = "/"

\* C20 as stated: when the route has answered for a report that exists, the
\* resolved path is the uploads root or lies below it, or the answer is 400
\* "Invalid file path"; a file outside the uploads root is never sent.
ClaimFileWithinRoot ==
  (pcR = "responded" /\ idValid /\ report.kind = "doc") =>
    /\ \/ WithinRoot(resolved, uploadsRoot)
       \/ response = Response(400, "Invalid file path", <<>>)
    /\ response.status = 200 => WithinRoot(response.file, uploadsRoot)

\* C21 as stated: for a report that POST /api/upload or POST /api/uploadimage
\* created, the file route answers with the uploaded file whenever the file is
\* on disk: its answer is the file at the report's storagePath, or 404 "File
\* missing on disk", whatever UPLOAD_DIR is.
ClaimUploadedFileServed ==
  (pcR = "responded" /\ report.kind = "doc") =>
    \/ response = Response(200, "", report.storagePath.chars)
    \/ response = Response(404, "File missing on disk", <<>>)

(***************************************************************************)
(* Properties of POST /api/process/:reportId                               *)
(***************************************************************************)
StepOrder == <<"lookup", "extract", "parse", "predict", "recommend", "save">>

\* what a step met let the request go on
StepSucceeded(e) ==
  CASE e.step = "lookup" -> e.output = "ok"
    [] e.step = "extract" -> ~e.error /\ e.output = "ok"
    [] e.step = "parse" -> ~e.error /\ e.status = 0 /\ e.output = "ok"
    [] e.step = "predict" -> ~e.error /\ e.status = 0 /\ e.output # "bad"
    [] e.step = "recommend" -> TRUE
    [] e.step = "save" -> ~e.error

ProcessFailed == pcProc = "responded" /\ procResponse.status # 200

\* C22 as stated: when a request to POST /api/process/:reportId fails, the
\* stored report keeps its previous fields and its processed flag is false.
ClaimFailureLeavesUnprocessed ==
  (ProcessFailed /\ stored.kind = "doc") =>
    stored = prevStored /\ stored.processed = FALSE

\* C22: the steps of a request run in the order lookup, extract, parse, predict,
\* recommend, save, each one only after the steps before it succeeded; the
\* stored report differs from the one the request found only after all of them
\* succeeded, and a request that fails ran no step after the failing one and
\* leaves the stored report, its processed flag included, as it found it.
InvStoredOnlyAfterSteps ==
  pcProc # "off" =>
    /\ \A i \in 1..Len(steps) :
         /\ steps[i].step = StepOrder[i]
         /\ i < Len(steps) => StepSucceeded(steps[i])
    /\ stored # prevStored =>
         /\ Len(steps) = 6
         /\ \A i \in 1..6 : StepSucceeded(steps[i])
    /\ ProcessFailed =>
         /\ stored = prevStored
         /\ ~StepSucceeded(steps[Len(steps)])

\* a request that failed at the prediction step of a report processed before
WitStoredOnlyAfterSteps ==
  /\ ProcessFailed
  /\ procResponse.msg = "Prediction failed"
  /\ Len(steps) = 4
  /\ stored = prevStored
  /\ stored.processed
  /\ stored.mlPredictions # <<>>

\* runRecommendations rejected: spawn error, non-zero exit or unparseable output
RecommendationFailed(e) == e.error \/ e.status # 0 \/ e.output # "ok"

\* the predictions of the predict script after the hemoglobin override
CorrectedPredictions ==
  IF steps[4].output = "empty" THEN <<>>
  ELSE [i \in 1..Len(items) |->
          HemoglobinRuleOne(PredictOne(items[i], sex, table), items)]

\* C23: when the recommendation step fails, the request goes on to the save
\* with the default recommendations; unless the save itself fails, the report
\* is stored with processed = true, the hemoglobin-corrected predictions and
\* the default recommendations, and the response is ok.
InvRecommendationNotFatal ==
  (Len(steps) >= 5 /\ RecommendationFailed(steps[5])) =>
    /\ pcProc \in {"save", "saving", "responded"}
    /\ recommendations = defaultRecommendations
    /\ pcProc = "responded" =>
         \/ steps[6].error /\ procResponse.status = 500
         \/ /\ ~steps[6].error
            /\ procResponse.status = 200
            /\ stored = StoredReport("doc", ReportText, items, CorrectedPredictions,
                                     defaultRecommendations, TRUE)

\* a request answered ok after a recommendation script that exited non-zero,
\* with an overridden hemoglobin prediction stored
WitRecommendationNotFatal ==
  /\ pcProc = "responded"
  /\ procResponse.status = 200
  /\ steps[5].status = 1
  /\ stored.recommendations = defaultRecommendations
  /\ \E i \in 1..Len(stored.mlPredictions) :
       "rule_overridden" \in DOMAIN stored.mlPredictions[i]

\* C24 as stated: when POST /api/process/:reportId has sent its response, neither
\* of the temporary files the request created (<timestamp>_extracted.json and
\* <timestamp>_items.json) is left on disk, whether the request succeeded or
\* failed.
ClaimTempFilesDeleted ==
  pcProc = "responded" => tmpExtracted \notin tmpFiles /\ tmpParsed \notin tmpFiles

(***************************************************************************)
(* Properties of runExtractor                                              *)
(***************************************************************************)
\* C25 as stated: over every interleaving of calls, a call of runExtractor that
\* resolves resolves with the output its own run of the extractor wrote, never
\* with the output of another run.
ClaimOwnOutput ==
  \A r \in DOMAIN calls :
    calls[r].settled = "resolved" => calls[r].value = r

(***************************************************************************)
(* Properties of runRecommendations                                        *)
(***************************************************************************)
\* some part of the text is a JSON object
ContainsJsonObject(cs) ==
  \E i \in 1..Len(cs) : \E j \in i..Len(cs) : JSONparse(SubSeq(cs, i, j)) = "object"

\* C26 as stated: once the child was spawned the temporary input file is gone
\* when the promise is settled; the promise is resolved only if the child
\* closed with code 0 and its stdout contains a parseable JSON object, and it
\* is rejected when the child closed in any other case.
ClaimResolvesOnlyWithObject ==
  /\ (recChild \notin {"off", "none"} /\ recPromise.settled # "pending") => ~recTmpFile
  /\ (recChild = "closed" /\ recPromise.settled = "resolved") =>
       recCode = 0 /\ ContainsJsonObject(Concat(recStdout))
  /\ (recChild = "closed" /\ ~(recCode = 0 /\ ContainsJsonObject(Concat(recStdout)))) =>
       recPromise.settled = "rejected"

(***************************************************************************)
(* Properties of POST /api/uploadimage                                     *)
(***************************************************************************)
\* C27: the response of POST /api/uploadimage carries report and reportId
\* exactly when the request persisted a Report, and then they are that Report
\* and its id; a request whose pipeline output parsed and whose Report could
\* not be saved is answered ok with pipeline and recommendations and without
\* reportId; a request answered 400 or 500 persisted no Report.
InvReportIdIffPersisted ==
  pcImg = "responded" =>
    LET persisted == {r \in reportsDb : r.filename = imgFile}
    IN  /\ ("reportId" \in DOMAIN imgResponse) <=> (persisted # {})
        /\ ("report" \in DOMAIN imgResponse) <=> (persisted # {})
        /\ persisted # {} =>
             /\ imgResponse.report \in persisted
             /\ imgResponse.reportId = imgResponse.report._id
        /\ imgResponse.status \in {400, 500} => reportsDb = {}
        /\ (imgResponse.status = 200 /\ persisted = {}) =>
             /\ imgResponse.ok
             /\ imgResponse.pipeline = ParseWithFallback(pipelineRaw)
             /\ imgResponse.pipeline # "null"
             /\ imgResponse.recommendations = recJson
        /\ imgResponse.status = 200 <=>
             (imgFile # <<>> /\ pipelineJson # "null")

\* the pipeline printed JSON inside other text, the save failed, and the
\* response is ok without a report id
WitReportIdIffPersisted ==
  /\ pcImg = "responded"
  /\ imgResponse.status = 200
  /\ reportsDb = {}
  /\ "reportId" \notin DOMAIN imgResponse
  /\ pipelineRaw = <<"x", "{", "}">>

(***************************************************************************)
(* Properties of UploadSheet                                               *)
(***************************************************************************)
\* a step in which an invocation of uploadAndProcess returns
SheetFinishes == presses' = presses /\ pcSheet' = "finished"

\* the processing request is the second request, follows an upload to
\* /api/upload that answered ok, and names the report id of that answer
ProcessAfterUpload ==
  \A i \in 1..Len(sent) :
    sent[i] \notin {"/api/upload", "/api/uploadimage"} =>
      /\ i = 2
      /\ sent[1] = "/api/upload"
      /\ ~uploadResp.thrown /\ uploadResp.ok
      /\ \E id \in {"r1", "r2", "r3"} :
           /\ sent[i] = "/api/process/" \o id
           /\ \/ uploadResp.body.reportId = id
              \/ uploadResp.body.reportId = "undefined" /\ uploadResp.body.report_id = id
              \/ /\ uploadResp.body.reportId = "undefined"
                 /\ uploadResp.body.report_id = "undefined"
                 /\ uploadResp.body.id = id

\* C28: when an invocation of uploadAndProcess returns, whatever its outcome,
\* loading is false and onClose was called exactly once since the invocation
\* began; a backdrop press, swipe or Cancel press while loading is true does
\* not call onClose; and POST /api/process/<reportId> is sent only after the
\* PDF upload answered ok with that report id.
InvSheetClosesOnce ==
  [][ /\ SheetFinishes => (loading' = FALSE /\ onCloseCalls' = 1)
      /\ (presses' # presses /\ loading) => onCloseCalls' = onCloseCalls
      /\ ProcessAfterUpload' ]_vars

\* an invocation that returned after the processing request, with the presses
\* used up and a report id taken from report._id
WitSheetClosesOnce ==
  /\ pcSheet = "finished"
  /\ Len(sent) = 2
  /\ onCloseCalls = 1
  /\ presses = MaxPresses
  /\ uploadResp.body.reportId = "undefined"
  /\ uploadResp.body.report_id = "r2"

====
